---------------------------- MODULE Spec2Model ----------------------------
(***************************************************************************)
(* A model of saecki/minesweeper: the combination enumerator               *)
(* (combination_iter.rs), the board generator and validator (gen.rs) and   *)
(* the game logic (lib.rs).                                                *)
(*                                                                         *)
(* Three specifications share the variables:                               *)
(*   SpecComb      one CombinationIter, driven by next()                   *)
(*   SpecValidate  a generated board, asked to validate itself             *)
(*   Spec          the game as played: new_game, click, hint               *)
(***************************************************************************)
EXTENDS Integers, Sequences, FiniteSets, TLC

VARIABLES
    iter,       \* the CombinationIter: [indices, n, k, stop]
    item,       \* what the last next() returned: [some, val]
    yielded,    \* every mask next() has returned so far, in order
    game,       \* the Game: [num_mines, play_state, unambigous, width, height, fields]
    board,      \* validate_board's working clone of the Game
    before,     \* the Game as it was when the running operation was called
    call,       \* the running (or last) operation: [op, x, y, ret, solvable, retried, low]
    pc          \* the position inside the running operation

vars == <<iter, item, yielded, game, board, before, call, pc>>

-----------------------------------------------------------------------------
(* combination_iter.rs *)

\* The length of CombinationIter::indices and of every yielded mask.
MaskLen == 8

\* How many items one iterator is asked for before the model stops asking.
MaxYield == 30

\* [bool; 8] as a function over the 0-based positions.
NoBits == [i \in 0..(MaskLen - 1) |-> FALSE]

\* Option<[bool; 8]>
None == [some |-> FALSE, val |-> NoBits]

Some(m) == [some |-> TRUE, val |-> m]

\* The positions that are true in a mask.
MaskSet(m) == {i \in DOMAIN m : m[i]}

\* CombinationIter::new
CombinationIter_new(n, k) ==
    [indices |-> [i \in 0..(MaskLen - 1) |-> IF i < k THEN i ELSE 0],
     n |-> n, k |-> k, stop |-> FALSE]

\* The mask built from indices[0..k] at the top of next().
IterNums(it) ==
    [p \in 0..(MaskLen - 1) |-> \E j \in 0..(it.k - 1) : it.indices[j] = p]

\* One round of the "increment indices" loop of next(), at position i;
\* the loop runs i = k-1 down to 0 and leaves at the first break.
RECURSIVE IterIncrement(_, _)
IterIncrement(it, i) ==
    IF i < 0 THEN it
    ELSE LET inc == it.indices[i] + 1
         IN  IF inc >= it.n
             THEN LET reset == IF i > 0 THEN it.indices[i - 1] + 2 ELSE inc
                      it2 == [it EXCEPT !.indices[i] = reset,
                                        !.stop = it.stop \/ reset >= it.n]
                  IN  IterIncrement(it2, i - 1)
             ELSE [it EXCEPT !.indices[i] = inc]

\* CombinationIter::next: the iterator after the call and the item returned.
CombinationIter_next(it) ==
    IF it.stop
    THEN [it |-> it, item |-> None]
    ELSE [it |-> IterIncrement(it, it.k - 1), item |-> Some(IterNums(it))]

-----------------------------------------------------------------------------
(* lib.rs: Field, FieldState, Visibility, Game *)

\* FieldState::Free(n) is the number n; FieldState::Mine is Mine.
Mine == -1

Free(n) == n

\* Field::free
Field_free(neighbors) == [visibility |-> "Hide", state |-> Free(neighbors)]

\* The number Game::new draws: gen_range(min..max).
GenRange(min, max) == min..(max - 1)

\* Game::new, with the number of mines it drew.
Game_new(width, height, num_mines, unambigous) ==
    [unambigous |-> unambigous,
     num_mines |-> num_mines,
     play_state |-> "Init",
     width |-> width,
     height |-> height,
     fields |-> [i \in 1..(width * height) |-> Field_free(0)]]

\* Game::is_in_bounds
is_in_bounds(g, x, y) == x >= 0 /\ x < g.width /\ y >= 0 /\ y < g.height

\* Index<(i16, i16)> for Game: fields[width * y + x], as a 1-based position.
Idx(g, x, y) == g.width * y + x + 1

At(g, x, y) == g.fields[Idx(g, x, y)]

\* The coordinates of the field at 1-based position i.
XOf(g, i) == (i - 1) % g.width

YOf(g, i) == (i - 1) \div g.width

SetVisibility(g, x, y, v) == [g EXCEPT !.fields[Idx(g, x, y)].visibility = v]

\* Game::clear_board
clear_board(g) ==
    [g EXCEPT !.fields = [i \in DOMAIN g.fields |->
                             [g.fields[i] EXCEPT !.state = Free(0)]]]

\* open_mine_count that counts the mines on the board instead of reading
\* num_mines.
open_mine_count_on_board(g) ==
    Cardinality({i \in DOMAIN g.fields : g.fields[i].state = Mine})
    - Cardinality({i \in DOMAIN g.fields : g.fields[i].visibility = "Hint"})

\* Game::open_mine_count (i16; the counts of the model stay far inside it)
open_mine_count(g) ==
    g.num_mines - Cardinality({i \in DOMAIN g.fields : g.fields[i].visibility = "Hint"})

-----------------------------------------------------------------------------
(* gen.rs: Adjacents *)

\* The compass offsets in the order of the bits NW, N, NE, E, SE, S, SW, W.
Compass == << <<-1, -1>>, <<0, -1>>, <<1, -1>>, <<1, 0>>,
              <<1, 1>>, <<0, 1>>, <<-1, 1>>, <<-1, 0>> >>

\* Adjacents::new: the bit set, as the 8 flags in bit order.
Adjacents_new(nw, n, ne, e, se, s, sw, w) == <<nw, n, ne, e, se, s, sw, w>>

\* Adjacents::num
num(a) == Cardinality({b \in 1..Len(a) : a[b]})

\* Adjacents::offsets
RECURSIVE OffsetsFrom(_, _)
OffsetsFrom(a, b) ==
    IF b > Len(a) THEN <<>>
    ELSE (IF a[b] THEN <<Compass[b]>> ELSE <<>>) \o OffsetsFrom(a, b + 1)

offsets(a) == OffsetsFrom(a, 1)

\* Game::is_hinted_field
is_hinted_field(g, x, y) ==
    IF ~is_in_bounds(g, x, y) THEN FALSE ELSE At(g, x, y).visibility = "Hint"

\* is_hidden_field that takes a field off the board for a hidden one.
is_hidden_field_off_board(g, x, y) ==
    IF ~is_in_bounds(g, x, y) THEN TRUE ELSE At(g, x, y).visibility = "Hide"

\* Game::is_hidden_field
is_hidden_field(g, x, y) ==
    IF ~is_in_bounds(g, x, y) THEN FALSE ELSE At(g, x, y).visibility = "Hide"

\* Game::hinted_adjacents
hinted_adjacents(g, x, y) ==
    Adjacents_new(is_hinted_field(g, x - 1, y - 1), is_hinted_field(g, x + 0, y - 1),
                  is_hinted_field(g, x + 1, y - 1), is_hinted_field(g, x + 1, y + 0),
                  is_hinted_field(g, x + 1, y + 1), is_hinted_field(g, x + 0, y + 1),
                  is_hinted_field(g, x - 1, y + 1), is_hinted_field(g, x - 1, y + 0))

\* Game::hidden_adjacents
hidden_adjacents(g, x, y) ==
    Adjacents_new(is_hidden_field(g, x - 1, y - 1), is_hidden_field(g, x + 0, y - 1),
                  is_hidden_field(g, x + 1, y - 1), is_hidden_field(g, x + 1, y + 0),
                  is_hidden_field(g, x + 1, y + 1), is_hidden_field(g, x + 0, y + 1),
                  is_hidden_field(g, x - 1, y + 1), is_hidden_field(g, x - 1, y + 0))

-----------------------------------------------------------------------------
(* gen.rs: is_solved, gen_board *)

\* is_solved that wants the mines shown too.
is_solved_all_shown(g) ==
    \A i \in DOMAIN g.fields : g.fields[i].visibility = "Show"

\* Game::is_solved
is_solved(g) ==
    \A i \in DOMAIN g.fields :
        g.fields[i].state # Mine => g.fields[i].visibility = "Show"

\* increment_field that sets the number to 1 instead of adding 1 to it.
increment_field_sets_one(g, x, y) ==
    IF is_in_bounds(g, x, y) /\ At(g, x, y).state # Mine
    THEN [g EXCEPT !.fields[Idx(g, x, y)].state = 1]
    ELSE g

\* Game::increment_field
increment_field(g, x, y) ==
    IF is_in_bounds(g, x, y) /\ At(g, x, y).state # Mine
    THEN [g EXCEPT !.fields[Idx(g, x, y)].state = @ + 1]
    ELSE g

\* The eight increment_field calls that follow the placing of a mine at (x, y).
IncrementAround(g, x, y) ==
    LET g1 == increment_field(g, x - 1, y - 1)
        g2 == increment_field(g1, x - 1, y + 0)
        g3 == increment_field(g2, x - 1, y + 1)
        g4 == increment_field(g3, x + 0, y - 1)
        g5 == increment_field(g4, x + 0, y + 1)
        g6 == increment_field(g5, x + 1, y - 1)
        g7 == increment_field(g6, x + 1, y + 0)
    IN  increment_field(g7, x + 1, y + 1)

\* gen/test.rs place_mine
place_mine(g, x, y) ==
    IncrementAround([g EXCEPT !.fields[Idx(g, x, y)].state = Mine], x, y)

\* The inner loop of gen_board: the 1-based position of the field that is
\* number available_idx (from 0) among the fields that are no mine, 0 if the
\* scan ends without reaching it.
RECURSIVE NthFree(_, _, _)
NthFree(g, i, available_idx) ==
    IF i > Len(g.fields) THEN 0
    ELSE IF g.fields[i].state # Mine
         THEN IF available_idx = 0 THEN i
              ELSE NthFree(g, i + 1, available_idx - 1)
         ELSE NthFree(g, i + 1, available_idx)

\* One round of the outer loop of gen_board with the number the rng drew.
GenMine(g, available_idx) ==
    LET i == NthFree(g, 1, available_idx)
    IN  IF i = 0 THEN g
        ELSE IncrementAround([g EXCEPT !.fields[i].state = Mine], XOf(g, i), YOf(g, i))

\* Game::gen_board, with the numbers the rng draws, one per mine:
\* for _ in 0..self.num_mines, from the m-th round on.
RECURSIVE GenFrom(_, _, _)
GenFrom(g, draws, m) ==
    IF m > g.num_mines THEN g
    ELSE GenFrom(GenMine(g, draws[m]), draws, m + 1)

gen_board(g, draws) == GenFrom(g, draws, 1)

\* The draws gen_board can make: the m-th is gen_range(0..available_indices)
\* with available_indices = fields.len() - (m - 1).
RECURSIVE DrawsFrom(_, _)
DrawsFrom(len, count) ==
    IF count = 0 THEN {<<>>}
    ELSE {<<d>> \o rest : d \in 0..(len - 1), rest \in DrawsFrom(len - 1, count - 1)}

Draws(g) == DrawsFrom(Len(g.fields), g.num_mines)

-----------------------------------------------------------------------------
(* gen.rs: solve_board *)

\* u8 subtraction as the release build computes it (the debug build panics
\* where this wraps).
U8Sub(a, b) == (a - b) % 256

\* The order of the recursive calls of solve_board on a Free(0) field.
FloodOrder == << <<-1, -1>>, <<0, -1>>, <<1, -1>>, <<-1, 0>>,
                 <<1, 0>>, <<-1, 1>>, <<0, 1>>, <<1, 1>> >>

\* The order of the hint_hidden_field calls and of the recursive calls of
\* solve_board on a Free(n) field, n > 0.
RuleOrder == << <<-1, -1>>, <<-1, 0>>, <<-1, 1>>, <<0, -1>>,
                <<0, 1>>, <<1, -1>>, <<1, 0>>, <<1, 1>> >>

\* Result<(), Error> of solve_board, with the board as the call left it.
SolveOk(g) == [g |-> g, ok |-> TRUE]

SolveErr(g) == [g |-> g, ok |-> FALSE]

\* hint_hidden_field that shows the hidden field instead of hinting it.
hint_hidden_field_shows(g, x, y) ==
    IF ~is_in_bounds(g, x, y) THEN g
    ELSE IF At(g, x, y).visibility = "Hide" THEN SetVisibility(g, x, y, "Show")
    ELSE g

\* Game::hint_hidden_field
hint_hidden_field(g, x, y) ==
    IF ~is_in_bounds(g, x, y) THEN g
    ELSE IF At(g, x, y).visibility = "Hide" THEN SetVisibility(g, x, y, "Hint")
    ELSE g

\* The eight hint_hidden_field calls of rule A, from the j-th on.
RECURSIVE HintAround(_, _, _, _)
HintAround(g, x, y, j) ==
    IF j > Len(RuleOrder) THEN g
    ELSE HintAround(hint_hidden_field(g, x + RuleOrder[j][1], y + RuleOrder[j][2]),
                    x, y, j + 1)

RECURSIVE solve_board(_, _, _, _)
RECURSIVE SolveCalls(_, _, _, _, _, _)

\* The recursive calls solve_board(x + dx, y + dy, false)? from the lo-th to
\* the hi-th of `order`, one after the other, on the result r of the calls
\* before them: the `?` ends the calls at the first Err.
SolveCalls(r, x, y, order, lo, hi) ==
    CASE ~r.ok -> r
      [] r.ok /\ lo = hi ->
            solve_board(r.g, x + order[lo][1], y + order[lo][2], FALSE)
      [] r.ok /\ lo < hi ->
            SolveCalls(SolveCalls(r, x, y, order, lo, (lo + hi) \div 2),
                       x, y, order, (lo + hi) \div 2 + 1, hi)

\* Rule A without the subtraction of the neighbours that are hinted already.
RuleA_ignores_hinted(g, x, y, neighbors) ==
    IF neighbors = num(hidden_adjacents(g, x, y))
    THEN HintAround(g, x, y, 1)
    ELSE g

\* Rule A that hints the hidden neighbours whatever the number says.
RuleA_whatever_missing(g, x, y, neighbors) == HintAround(g, x, y, 1)

\* Rule A: when the missing mines are as many as the hidden neighbours, the
\* hidden neighbours are hinted.
RuleA(g, x, y, neighbors) ==
    IF U8Sub(neighbors, num(hinted_adjacents(g, x, y))) = num(hidden_adjacents(g, x, y))
    THEN HintAround(g, x, y, 1)
    ELSE g

\* Rule B that solves from the other neighbours whatever is hinted.
RuleB_whatever_hinted(g, x, y, neighbors) ==
    SolveCalls(SolveOk(g), x, y, RuleOrder, 1, Len(RuleOrder))

\* Rule B: when the hinted neighbours are as many as the number, the other
\* neighbours are solved from.
RuleB(g, x, y, neighbors) ==
    IF neighbors = num(hinted_adjacents(g, x, y))
    THEN SolveCalls(SolveOk(g), x, y, RuleOrder, 1, Len(RuleOrder))
    ELSE SolveOk(g)

\* match field.visibility passes the field on to match field.state: it was
\* hidden (and is shown now), or it is shown and the call is forced.
Entered(field, force) ==
    field.visibility = "Hide" \/ (field.visibility = "Show" /\ force)

\* match field.visibility and match field.state, on the in-bounds field (x, y)
SolveField(g, x, y, force, field) ==
    CASE ~Entered(field, force) -> SolveOk(g)
      [] Entered(field, force) /\ field.state = Mine -> SolveErr(g)
      [] Entered(field, force) /\ field.state = Free(0) ->
            SolveCalls(SolveOk(SetVisibility(g, x, y, "Show")),
                       x, y, FloodOrder, 1, Len(FloodOrder))
      [] Entered(field, force) /\ field.state > Free(0) ->
            RuleB(RuleA(SetVisibility(g, x, y, "Show"), x, y, field.state),
                  x, y, field.state)

\* Game::solve_board
solve_board(g, x, y, force) ==
    IF ~is_in_bounds(g, x, y) THEN SolveOk(g)
    ELSE SolveField(g, x, y, force, At(g, x, y))

-----------------------------------------------------------------------------
(* gen.rs: guess_mines *)

Min(a, b) == IF a < b THEN a ELSE b

Max(a, b) == IF a > b THEN a ELSE b

\* What is seen of a call of guess_mines while it runs:
\*   low    the lowest open_mine_count() of the boards it has worked on, the
\*          receiver and the hypothesis boards built from it;
\*   deep   the highest n of the calls nested in it, its own included;
\*   under  whether `neighbors - hinted_adjacents.num()` of a scan went
\*          below zero;
\*   tried  how many hypothesis boards its own 'combinations loops built.
Seen(r) == [low |-> r.low, deep |-> r.deep, under |-> r.under, tried |-> r.tried]

Both(a, b) ==
    [low   |-> IF a.low < b.low THEN a.low ELSE b.low,
     deep  |-> IF a.deep > b.deep THEN a.deep ELSE b.deep,
     under |-> a.under \/ b.under,
     tried |-> a.tried + b.tried]

\* Result<Solve, Error>: Ok(Progress(g)), Ok(NoMissingNeighbors), Ok(Done),
\* Err(Invalid), Err(Ambigous); g is the board of a Progress. With it goes
\* what was seen of the call.
Outcome(tag, g, seen) ==
    [tag |-> tag, g |-> g, low |-> seen.low, deep |-> seen.deep,
     under |-> seen.under, tried |-> seen.tried]

\* Option<Game> for valid_board, and what was seen of the call so far.
NoBoard(g, seen) ==
    [some |-> FALSE, g |-> g, low |-> seen.low, deep |-> seen.deep,
     under |-> seen.under, tried |-> seen.tried]

SomeBoard(g, seen) ==
    [some |-> TRUE, g |-> g, low |-> seen.low, deep |-> seen.deep,
     under |-> seen.under, tried |-> seen.tried]

\* The field at 1-based position i is shown and free.
ShownFree(g, i) == g.fields[i].visibility = "Show" /\ g.fields[i].state # Mine

InWindow(g, i, x_s, x_e, y_s, y_e) ==
    XOf(g, i) >= x_s /\ XOf(g, i) < x_e /\ YOf(g, i) >= y_s /\ YOf(g, i) < y_e

\* What the scan of guess_mines finds at position i: the entry it would push
\* to possible_fields, and whether it pushes it: the field is in the window,
\* shown and free, and 0 < missing < hidden.
Scanned(g, i, x_s, x_e, y_s, y_e) ==
    [x         |-> XOf(g, i),
     y         |-> YOf(g, i),
     missing   |-> U8Sub(g.fields[i].state,
                         num(hinted_adjacents(g, XOf(g, i), YOf(g, i)))),
     adjacents |-> hidden_adjacents(g, XOf(g, i), YOf(g, i)),
     pushed    |-> /\ InWindow(g, i, x_s, x_e, y_s, y_e)
                   /\ ShownFree(g, i)
                   /\ U8Sub(g.fields[i].state,
                            num(hinted_adjacents(g, XOf(g, i), YOf(g, i)))) > 0
                   /\ U8Sub(g.fields[i].state,
                            num(hinted_adjacents(g, XOf(g, i), YOf(g, i))))
                        < num(hidden_adjacents(g, XOf(g, i), YOf(g, i)))]

Pushed(f) == f.pushed

\* The scan of guess_mines for possible_fields, row by row.
PossibleFields(g, x_s, x_e, y_s, y_e) ==
    SelectSeq([i \in 1..Len(g.fields) |-> Scanned(g, i, x_s, x_e, y_s, y_e)], Pushed)

\* The comparison of possible_fields.sort_unstable_by: by hidden - missing,
\* then by missing.
FieldLess(a, b) ==
    \/ num(a.adjacents) - a.missing < num(b.adjacents) - b.missing
    \/ /\ num(a.adjacents) - a.missing = num(b.adjacents) - b.missing
       /\ a.missing < b.missing

\* The sort of possible_fields; fields that compare equal keep the order of
\* the scan (the insertion sort the standard library runs on short slices).
SortFields(fs) == SortSeq(fs, FieldLess)

\* The hypothesis board: a clone with the chosen hidden neighbours hinted.
RECURSIVE HintCombination(_, _, _, _, _, _)
HintCombination(g, x, y, offs, combination, fi) ==
    IF fi >= Len(offs) THEN g
    ELSE HintCombination(
             IF combination[fi]
             THEN SetVisibility(g, x + offs[fi + 1][1], y + offs[fi + 1][2], "Hint")
             ELSE g,
             x, y, offs, combination, fi + 1)

\* The hypothesis board taken for valid whatever is hinted around (x, y).
OverHinted_unseen(g, x, y) == FALSE

\* "invalid other": a shown free field of the radius-2 window around (x, y)
\* has more hinted neighbours than its number.
OverHinted(g, x, y) ==
    \E i \in DOMAIN g.fields :
        /\ InWindow(g, i, Max(x - 2, 0), Min(x + 3, g.width),
                          Max(y - 2, 0), Min(y + 3, g.height))
        /\ ShownFree(g, i)
        /\ num(hinted_adjacents(g, XOf(g, i), YOf(g, i))) > g.fields[i].state

\* "invalid still open fields": a shown free field of the board has fewer
\* hinted neighbours than its number.
StillOpen(g) ==
    \E i \in DOMAIN g.fields :
        /\ ShownFree(g, i)
        /\ num(hinted_adjacents(g, XOf(g, i), YOf(g, i))) < g.fields[i].state

RECURSIVE guess_mines(_, _, _, _, _, _)
RECURSIVE Guessing(_, _, _, _, _, _)
RECURSIVE Combination(_, _, _, _, _)

\* match board.guess_mines(x_s, x_e, y_s, y_e, n + 1) on the hypothesis hyp:
\* "Invalid" continues 'combinations, "Done" returns Ok(Done), "Valid" is a
\* board (the hypothesis, or the board of a Progress) that passed.
Recursed(hyp, rec) ==
    CASE rec.tag = "Invalid" -> Outcome("Invalid", hyp, [Seen(rec) EXCEPT !.tried = 1])
      [] rec.tag = "Done" -> Outcome("Done", hyp, [Seen(rec) EXCEPT !.tried = 1])
      [] rec.tag = "Progress" -> Outcome("Valid", rec.g, [Seen(rec) EXCEPT !.tried = 1])
      [] rec.tag \in {"Ambigous", "NoMissingNeighbors"} ->
            Outcome("Valid", hyp, [Seen(rec) EXCEPT !.tried = 1])

\* What is seen of one hypothesis board hyp that a call with n has built.
Built(hyp, n) ==
    [low |-> open_mine_count(hyp), deep |-> n, under |-> FALSE, tried |-> 1]

\* The checks of one hypothesis board hyp of the possible field f.
Hypothesis(f, n, hyp) ==
    CASE OverHinted(hyp, f.x, f.y) -> Outcome("Invalid", hyp, Built(hyp, n))
      [] ~OverHinted(hyp, f.x, f.y) /\ open_mine_count(hyp) = 0 ->
            IF StillOpen(hyp) THEN Outcome("Invalid", hyp, Built(hyp, n))
            ELSE Outcome("Valid", hyp, Built(hyp, n))
      [] ~OverHinted(hyp, f.x, f.y) /\ open_mine_count(hyp) # 0 ->
            Recursed(hyp, guess_mines(hyp, Max(f.x - 3, 0), Min(f.x + 4, hyp.width),
                                           Max(f.y - 3, 0), Min(f.y + 4, hyp.height),
                                      n + 1))

\* valid_board as it is, with more seen.
SomeOrNoBoard(valid_board, seen) ==
    IF valid_board.some THEN SomeBoard(valid_board.g, seen)
    ELSE NoBoard(valid_board.g, seen)

\* The end of one round with a second valid board passed over: the loop
\* goes on with the first as valid_board.
Checked_passes_second(g, f, it, valid_board, n, h) ==
    CASE h.tag = "Done" ->
            [tag |-> "Done",
             valid |-> SomeOrNoBoard(valid_board, Both(Seen(valid_board), Seen(h)))]
      [] h.tag = "Valid" /\ ~valid_board.some ->
            Combination(g, f, CombinationIter_next(it),
                        SomeBoard(h.g, Both(Seen(valid_board), Seen(h))), n)
      [] h.tag = "Invalid" \/ (h.tag = "Valid" /\ valid_board.some) ->
            Combination(g, f, CombinationIter_next(it),
                        SomeOrNoBoard(valid_board, Both(Seen(valid_board), Seen(h))), n)

\* The end of one round of the 'combinations loop, h being what the checks of
\* its hypothesis gave: the first valid board is kept as valid_board, the
\* second ends the loop ("Ambigous": continue 'guessing).
Checked(g, f, it, valid_board, n, h) ==
    CASE h.tag = "Invalid" ->
            Combination(g, f, CombinationIter_next(it),
                        SomeOrNoBoard(valid_board, Both(Seen(valid_board), Seen(h))), n)
      [] h.tag = "Done" ->
            [tag |-> "Done",
             valid |-> SomeOrNoBoard(valid_board, Both(Seen(valid_board), Seen(h)))]
      [] h.tag = "Valid" /\ valid_board.some ->
            [tag |-> "Ambigous",
             valid |-> SomeOrNoBoard(valid_board, Both(Seen(valid_board), Seen(h)))]
      [] h.tag = "Valid" /\ ~valid_board.some ->
            Combination(g, f, CombinationIter_next(it),
                        SomeBoard(h.g, Both(Seen(valid_board), Seen(h))), n)

\* One round of the 'combinations loop with what the iterator returned. The
\* loop ends "Done" (a recursive Done), "Ambigous" (a second valid board) or
\* "End" (the iterator is exhausted), with valid_board.
Combination(g, f, nx, valid_board, n) ==
    IF ~nx.item.some THEN [tag |-> "End", valid |-> valid_board]
    ELSE Checked(g, f, nx.it, valid_board, n,
                 Hypothesis(f, n, HintCombination(g, f.x, f.y, offsets(f.adjacents),
                                                  nx.item.val, 0)))

\* The 'combinations loop for the possible field f, from iterator `it` on.
Combinations(g, f, it, valid_board, n) ==
    Combination(g, f, CombinationIter_next(it), valid_board, n)

\* What follows the loop with the only valid board taken for a solved one.
Guessed_solved_untested(g, fs, j, num_ambigous, n, c) ==
    CASE c.tag = "Done" -> Outcome("Done", g, Seen(c.valid))
      [] c.tag = "Ambigous" -> Guessing(g, fs, j + 1, num_ambigous + 1, n, Seen(c.valid))
      [] c.tag = "End" /\ ~c.valid.some ->
            Guessing(g, fs, j + 1, num_ambigous, n, Seen(c.valid))
      [] c.tag = "End" /\ c.valid.some -> Outcome("Done", g, Seen(c.valid))

\* What follows the 'combinations loop of the j-th possible field.
Guessed(g, fs, j, num_ambigous, n, c) ==
    CASE c.tag = "Done" -> Outcome("Done", g, Seen(c.valid))
      [] c.tag = "Ambigous" -> Guessing(g, fs, j + 1, num_ambigous + 1, n, Seen(c.valid))
      [] c.tag = "End" /\ ~c.valid.some ->
            Guessing(g, fs, j + 1, num_ambigous, n, Seen(c.valid))
      [] c.tag = "End" /\ c.valid.some ->
            IF is_solved(c.valid.g) THEN Outcome("Done", g, Seen(c.valid))
            ELSE Outcome("Progress", c.valid.g, Seen(c.valid))

\* The 'guessing loop that ends Err(Invalid) whatever num_ambigous is.
Guessing_ends_invalid(g, fs, j, num_ambigous, n, seen) ==
    CASE j > Len(fs) -> Outcome("Invalid", g, seen)
      [] j <= Len(fs) /\ open_mine_count(g) < fs[j].missing -> Outcome("Invalid", g, seen)
      [] j <= Len(fs) /\ open_mine_count(g) >= fs[j].missing ->
            Guessed(g, fs, j, num_ambigous, n,
                    Combinations(g, fs[j],
                                 CombinationIter_new(num(fs[j].adjacents), fs[j].missing),
                                 NoBoard(g, seen), n))

\* The 'guessing loop without its test of open_mine_count().
Guessing_without_budget(g, fs, j, num_ambigous, n, seen) ==
    IF j > Len(fs)
    THEN IF num_ambigous > 0 THEN Outcome("Ambigous", g, seen)
         ELSE Outcome("Invalid", g, seen)
    ELSE Guessed(g, fs, j, num_ambigous, n,
                 Combinations(g, fs[j],
                              CombinationIter_new(num(fs[j].adjacents), fs[j].missing),
                              NoBoard(g, seen), n))

\* The 'guessing loop over the sorted possible fields, from the j-th on.
Guessing(g, fs, j, num_ambigous, n, seen) ==
    CASE j > Len(fs) ->
            IF num_ambigous > 0 THEN Outcome("Ambigous", g, seen)
            ELSE Outcome("Invalid", g, seen)
      [] j <= Len(fs) /\ open_mine_count(g) < fs[j].missing -> Outcome("Invalid", g, seen)
      [] j <= Len(fs) /\ open_mine_count(g) >= fs[j].missing ->
            Guessed(g, fs, j, num_ambigous, n,
                    Combinations(g, fs[j],
                                 CombinationIter_new(num(fs[j].adjacents), fs[j].missing),
                                 NoBoard(g, seen), n))

\* A shown free field of the window has more hinted neighbours than its
\* number: the scan's `neighbors - hinted_adjacents.num()` goes below zero.
ScanUnderflows(g, x_s, x_e, y_s, y_e) ==
    \E i \in DOMAIN g.fields :
        /\ InWindow(g, i, x_s, x_e, y_s, y_e)
        /\ ShownFree(g, i)
        /\ num(hinted_adjacents(g, XOf(g, i), YOf(g, i))) > g.fields[i].state

\* What is seen of a call of guess_mines when its scan is done.
Entering(g, x_s, x_e, y_s, y_e, n) ==
    [low |-> open_mine_count(g), deep |-> n,
     under |-> ScanUnderflows(g, x_s, x_e, y_s, y_e), tried |-> 0]

\* guess_mines after the scan.
GuessFields(g, possible_fields, n, seen) ==
    IF Len(possible_fields) = 0
    THEN Outcome("NoMissingNeighbors", g, seen)
    ELSE Guessing(g, SortFields(possible_fields), 1, 0, n, seen)

\* Game::guess_mines
guess_mines(g, x_s, x_e, y_s, y_e, n) ==
    GuessFields(g, PossibleFields(g, x_s, x_e, y_s, y_e), n,
                Entering(g, x_s, x_e, y_s, y_e, n))

-----------------------------------------------------------------------------
(* gen.rs: validate_board, is_unambigous *)

\* Where validate_board stands after a step: "Ok", "Invalid" and "Ambigous"
\* are its return values, "Continue" is control reaching the next statement.
Step(ret, b) == [ret |-> ret, board |-> b]

\* Solved without the is_solved() test: an Ok of solve_board is taken for a
\* solved board.
Solved_when_no_error(r) ==
    IF ~r.ok THEN Step("Invalid", r.g) ELSE Step("Ok", r.g)

\* solve_board(x, y, true)?; if board.is_solved() { return Ok(()) }
Solved(r) ==
    IF ~r.ok THEN Step("Invalid", r.g)
    ELSE IF is_solved(r.g) THEN Step("Ok", r.g)
    ELSE Step("Continue", r.g)

SolveStep(b, x, y) == Solved(solve_board(b, x, y, TRUE))

RECURSIVE SolveFields(_, _, _)
RECURSIVE SolveFixedPoint(_, _)
RECURSIVE ValidateLoop(_, _, _, _)

\* for y in 0..board.height { for x in 0..board.width { .. } }, on the fields
\* from position lo to position hi, r being where the loop stands before
\* them: every field found shown when the loop reaches it is solved from.
SolveFields(r, lo, hi) ==
    CASE r.ret # "Continue" -> r
      [] r.ret = "Continue" /\ lo = hi ->
            IF r.board.fields[lo].visibility = "Show"
            THEN SolveStep(r.board, XOf(r.board, lo), YOf(r.board, lo))
            ELSE r
      [] r.ret = "Continue" /\ lo < hi ->
            SolveFields(SolveFields(r, lo, (lo + hi) \div 2), (lo + hi) \div 2 + 1, hi)

\* One pass over the board.
SolvePass(b) == SolveFields(Step("Continue", b), 1, Len(b.fields))

\* The inner loop left after its first pass, whatever the pass changed.
SolveFixedPoint_one_pass(copy, r) == r

\* The inner loop, r being where a pass over `copy` ended:
\* if copy == board { break }; copy.clone_from(&board)
SolveFixedPoint(copy, r) ==
    CASE r.ret # "Continue" -> r
      [] r.ret = "Continue" /\ copy = r.board -> r
      [] r.ret = "Continue" /\ copy # r.board ->
            SolveFixedPoint(r.board, SolvePass(r.board))

\* The match with Ok(NoMissingNeighbors) taken for a solved board.
Guess_nothing_missing_is_ok(b, r) ==
    IF r.tag \in {"Done", "NoMissingNeighbors"} THEN Step("Ok", b)
    ELSE IF r.tag = "Progress" THEN Step("Continue", r.g)
    ELSE Step(r.tag, b)

\* match board.guess_mines(0, board.width, 0, board.height, 0)
Guess(b, r) ==
    IF r.tag = "Done" THEN Step("Ok", b)
    ELSE IF r.tag = "Progress" THEN Step("Continue", r.g)
    ELSE IF r.tag = "NoMissingNeighbors" THEN Step("Ambigous", b)
    ELSE Step(r.tag, b)

\* Where the loop of validate_board ends, with `low`, the lowest
\* open_mine_count() of the boards the call has worked on.
Ended(s, low) == [ret |-> s.ret, board |-> s.board, low |-> Min(low, open_mine_count(s.board))]

\* The outer loop of validate_board, after guess_mines has returned r.
AfterGuess(s, r, x, y, low) ==
    IF s.ret # "Continue" THEN Ended(s, Min(low, r.low))
    ELSE ValidateLoop(s.board, x, y, Min(low, r.low))

GuessStep(b, r, x, y, low) == AfterGuess(Guess(b, r), r, x, y, low)

\* The outer loop of validate_board, after the inner loop.
AfterFixedPoint(s, x, y, low) ==
    IF s.ret # "Continue" THEN Ended(s, low)
    ELSE GuessStep(s.board, guess_mines(s.board, 0, s.board.width, 0, s.board.height, 0),
                   x, y, Min(low, open_mine_count(s.board)))

\* The outer loop of validate_board, after the first solve_board.
AfterSolve(s, x, y, low) ==
    IF s.ret # "Continue" THEN Ended(s, low)
    ELSE AfterFixedPoint(SolveFixedPoint(s.board, SolvePass(s.board)), x, y,
                         Min(low, open_mine_count(s.board)))

\* The outer loop of validate_board on its working board b.
ValidateLoop(b, x, y, low) == AfterSolve(SolveStep(b, x, y), x, y, low)

\* Validated with the loop run on the receiver itself, not on a clone.
Validated_in_place(self, r) ==
    [self |-> r.board, ret |-> r.ret, board |-> r.board, low |-> r.low]

\* What validate_board returns, given where its loop ended: the receiver as
\* the call leaves it, the result and the working board.
Validated(self, r) == [self |-> self, ret |-> r.ret, board |-> r.board, low |-> r.low]

\* Game::validate_board; the loop runs on `board`, a clone of the receiver.
validate_board(self, x, y) ==
    Validated(self, ValidateLoop(self, x, y, open_mine_count(self)))

\* Unambigous with every result but Invalid taken for Ok.
Unambigous_unless_invalid(self, r) ==
    [self |-> self, ret |-> (r.ret # "Invalid"), board |-> r.board, low |-> r.low]

\* What is_unambigous returns, given what validate_board returned.
Unambigous(self, r) ==
    [self |-> self, ret |-> (r.ret = "Ok"), board |-> r.board, low |-> r.low]

\* Game::is_unambigous; validate_board runs on a clone of the receiver.
is_unambigous(self, x, y) == Unambigous(self, validate_board(self, x, y))

-----------------------------------------------------------------------------
(* lib.rs: the game as played *)

\* Game::lose
lose(g, x, y) ==
    IF g.play_state # "Playing" THEN g
    ELSE [SetVisibility(g, x, y, "Show") EXCEPT !.play_state = "Lost"]

\* check_if_won without the is_solved() test.
check_if_won_unsolved(g) ==
    IF g.play_state # "Playing" THEN g
    ELSE [g EXCEPT !.play_state = "Won",
                   !.fields = [i \in DOMAIN g.fields |->
                                  [g.fields[i] EXCEPT !.visibility = "Show"]]]

\* check_if_won without the test of the play state.
check_if_won_not_playing(g) ==
    IF ~is_solved(g) THEN g
    ELSE [g EXCEPT !.play_state = "Won",
                   !.fields = [i \in DOMAIN g.fields |->
                                  [g.fields[i] EXCEPT !.visibility = "Show"]]]

\* Game::check_if_won: the game after the call; it returns Some(duration)
\* exactly when it leaves the game Won.
check_if_won(g) ==
    IF ~is_solved(g) THEN g
    ELSE IF g.play_state # "Playing" THEN g
    ELSE [g EXCEPT !.play_state = "Won",
                   !.fields = [i \in DOMAIN g.fields |->
                                  [g.fields[i] EXCEPT !.visibility = "Show"]]]

RECURSIVE show_neighbors(_, _, _)
RECURSIVE ShowAround(_, _, _, _)

\* The eight recursive calls of show_neighbors around (x, y), from the j-th on;
\* a call off the board returns at once.
ShowAround(g, x, y, j) ==
    CASE j > Len(RuleOrder) -> g
      [] j <= Len(RuleOrder)
           /\ ~is_in_bounds(g, x + RuleOrder[j][1], y + RuleOrder[j][2]) ->
            ShowAround(g, x, y, j + 1)
      [] j <= Len(RuleOrder)
           /\ is_in_bounds(g, x + RuleOrder[j][1], y + RuleOrder[j][2]) ->
            ShowAround(show_neighbors(g, x + RuleOrder[j][1], y + RuleOrder[j][2]),
                       x, y, j + 1)

\* show_neighbors that shows the field and none of its neighbours.
ShowField_alone(g, x, y, field) ==
    IF field.visibility = "Show" THEN g ELSE SetVisibility(g, x, y, "Show")

\* show_neighbors on the in-bounds field (x, y).
ShowField(g, x, y, field) ==
    CASE field.visibility = "Show" -> g
      [] field.visibility # "Show" /\ field.state # Free(0) ->
            SetVisibility(g, x, y, "Show")
      [] field.visibility # "Show" /\ field.state = Free(0) ->
            ShowAround(SetVisibility(g, x, y, "Show"), x, y, 1)

\* Game::show_neighbors
show_neighbors(g, x, y) ==
    IF ~is_in_bounds(g, x, y) THEN g ELSE ShowField(g, x, y, At(g, x, y))

\* Game::show_if_not_hinted
show_if_not_hinted(g, x, y) ==
    IF ~is_in_bounds(g, x, y) THEN g
    ELSE IF At(g, x, y).visibility \in {"Show", "Hint"} THEN g
    ELSE IF At(g, x, y).state = Mine THEN lose(g, x, y)
    ELSE show_neighbors(g, x, y)

\* The eight show_if_not_hinted calls of click around (x, y), from the j-th on;
\* a call off the board returns at once.
RECURSIVE ShowUnhinted(_, _, _, _)
ShowUnhinted(g, x, y, j) ==
    IF j > Len(RuleOrder) THEN g
    ELSE IF ~is_in_bounds(g, x + RuleOrder[j][1], y + RuleOrder[j][2])
         THEN ShowUnhinted(g, x, y, j + 1)
         ELSE ShowUnhinted(show_if_not_hinted(g, x + RuleOrder[j][1],
                                              y + RuleOrder[j][2]),
                           x, y, j + 1)

\* ClickFree that shows the neighbours of a shown field whatever the number
\* of its hinted neighbours.
ClickFree_whatever_hinted(g, x, y, neighbors) ==
    IF At(g, x, y).visibility = "Show" THEN ShowUnhinted(g, x, y, 1) ELSE g

\* click on a free field with number `neighbors`: a shown field whose hinted
\* neighbours are as many as its number shows the others.
ClickFree(g, x, y, neighbors) ==
    IF At(g, x, y).visibility = "Show" /\ num(hinted_adjacents(g, x, y)) = neighbors
    THEN ShowUnhinted(g, x, y, 1)
    ELSE g

\* Game::click from `let field = &mut self[(x, y)]` on, (x, y) in bounds.
ClickField(g, x, y) ==
    IF At(g, x, y).visibility = "Hint" THEN g
    ELSE IF At(g, x, y).state = Mine THEN lose(g, x, y)
    ELSE check_if_won(show_neighbors(ClickFree(g, x, y, At(g, x, y).state), x, y))

\* The test at the top of the loop of the first click: the board is kept.
Breaks(g, x, y, unambigous) ==
    At(g, x, y).state = Free(0) /\ (~g.unambigous \/ unambigous.ret)

\* Game::hint_
hint_(g, x, y) ==
    IF ~is_in_bounds(g, x, y) THEN g
    ELSE IF At(g, x, y).visibility = "Hint" THEN SetVisibility(g, x, y, "Hide")
    ELSE IF At(g, x, y).visibility = "Hide" THEN SetVisibility(g, x, y, "Hint")
    ELSE g

\* The 1-based positions of the in-bounds neighbours of position i.
Neighbours(g, i) ==
    {Idx(g, XOf(g, i) + Compass[d][1], YOf(g, i) + Compass[d][2]) :
        d \in {d \in 1..Len(Compass) :
                 is_in_bounds(g, XOf(g, i) + Compass[d][1], YOf(g, i) + Compass[d][2])}}

\* The subsets of S with k elements.
RECURSIVE KSubsets(_, _)
KSubsets(S, k) ==
    IF k = 0 THEN {{}}
    ELSE IF Cardinality(S) < k THEN {}
    ELSE LET e == CHOOSE e \in S : TRUE
         IN  KSubsets(S \ {e}, k) \cup {P \cup {e} : P \in KSubsets(S \ {e}, k - 1)}

\* The placements of num_mines mines on the fields outside `shown` that agree
\* with the number of every field of `shown`.
Placements(g, shown) ==
    {P \in KSubsets(DOMAIN g.fields \ shown, g.num_mines) :
        \A i \in shown : Cardinality(Neighbours(g, i) \cap P) = g.fields[i].state}

\* The fields outside `shown` that hold a mine in no such placement.
Safe(g, shown) ==
    LET ps == Placements(g, shown)
    IN  {i \in DOMAIN g.fields \ shown : \A P \in ps : i \notin P}

\* Revealing the free fields `todo`: each is shown, and with a Free(0) field
\* its neighbours.
RECURSIVE Reveal(_, _, _)
Reveal(g, shown, todo) ==
    IF todo \subseteq shown THEN shown
    ELSE LET i == CHOOSE i \in todo \ shown : TRUE
         IN  Reveal(g, shown \cup {i},
                    (todo \ {i}) \cup (IF g.fields[i].state = Free(0)
                                       THEN Neighbours(g, i) ELSE {}))

\* Revealing safe fields for as long as there are any.
RECURSIVE Deduce(_, _)
Deduce(g, shown) ==
    LET safe == Safe(g, shown)
    IN  IF safe = {} THEN shown ELSE Deduce(g, Reveal(g, shown, safe))

\* The board can be solved from (x, y) without a guess: reveals that start at
\* (x, y) and go on only to fields that are free in every placement that agrees
\* with the numbers shown reach every free field.
Solvable(g, x, y) ==
    /\ At(g, x, y).state # Mine
    /\ LET shown == Deduce(g, Reveal(g, {}, {Idx(g, x, y)}))
       IN  \A i \in DOMAIN g.fields : g.fields[i].state # Mine => i \in shown

-----------------------------------------------------------------------------
(* The boards of the model *)

\* The size of the boards the model generates every mine placement of; the
\* boards of the game itself are 20x14, 30x18 and 40x24.
SmallBoard == [width |-> 3, height |-> 3]

\* Game::new draws num_mines from min..max (exclusive): 0..MaxMines on the
\* boards that are validated, 0..PlayMines on the boards that are played.
MaxMines == 4

PlayMines == 3

\* How many fields of a game the player has hinted at any one time.
MaxHints == 1

\* gen/test.rs: the boards its tests build by hand, and the cell they
\* validate from.
ambigous_board ==
    [width |-> 5, height |-> 5, mines |-> << <<3, 1>>, <<2, 2>>, <<1, 3>> >>,
     x |-> 0, y |-> 0]

solvable_board_1 ==
    [width |-> 5, height |-> 5, mines |-> << <<2, 2>>, <<2, 3>> >>, x |-> 0, y |-> 0]

solvable_board_2 ==
    [width |-> 4, height |-> 5,
     mines |-> << <<0, 3>>, <<1, 2>>, <<2, 2>>, <<0, 4>> >>, x |-> 0, y |-> 0]

solvable_board_3 ==
    [width |-> 9, height |-> 5,
     mines |-> << <<0, 3>>, <<1, 2>>, <<2, 2>>, <<4, 2>>, <<6, 2>>, <<7, 2>>, <<8, 3>> >>,
     x |-> 0, y |-> 0]

solvable_board_4 ==
    [width |-> 5, height |-> 5, mines |-> << <<2, 2>>, <<1, 3>> >>, x |-> 0, y |-> 0]

TestBoards ==
    {ambigous_board, solvable_board_1, solvable_board_2, solvable_board_3,
     solvable_board_4}

\* A 4x4 board gen_board can produce, and a Free(0) cell of it.
corner_board ==
    [width |-> 4, height |-> 4,
     mines |-> << <<1, 0>>, <<2, 0>>, <<3, 1>>, <<3, 3>> >>, x |-> 0, y |-> 2]

\* The larger boards the model generates one placement of.
Scenarios == TestBoards \cup {corner_board}

\* place_mine for each mine of a test, in the order of the test; a game
\* without fields has none to place a mine on.
RECURSIVE PlaceMines(_, _, _)
PlaceMines(g, mines, j) ==
    IF j > Len(mines) \/ Len(g.fields) = 0 THEN g
    ELSE PlaceMines(place_mine(g, mines[j][1], mines[j][2]), mines, j + 1)

\* The numbers the rng has to draw for gen_board to place `mines` in order:
\* the j-th is the count of fields before the mine that are no mine yet.
RECURSIVE DrawsFor(_, _, _)
DrawsFor(g, mines, j) ==
    IF j > Len(mines) THEN <<>>
    ELSE <<Cardinality({p \in 1..(Idx(g, mines[j][1], mines[j][2]) - 1) :
                          g.fields[p].state # Mine})>>
         \o DrawsFor(place_mine(g, mines[j][1], mines[j][2]), mines, j + 1)

IsSmall(g) == g.width = SmallBoard.width /\ g.height = SmallBoard.height

\* The scenarios on a board of the size and the number of mines of g.
ScenariosOf(g) ==
    {sc \in Scenarios : /\ sc.width = g.width
                        /\ sc.height = g.height
                        /\ Len(sc.mines) = g.num_mines}

\* The draws the model lets the rng make on g: all of them on a small board,
\* those of the scenarios on a larger one.
GenDraws(g) ==
    IF IsSmall(g) THEN Draws(g)
    ELSE {DrawsFor(g, sc.mines, 1) : sc \in ScenariosOf(g)}

\* The cells the model validates g from: all on a small board, those of the
\* scenarios on a larger one.
Starts(g) ==
    IF IsSmall(g) THEN (0..(g.width - 1)) \X (0..(g.height - 1))
    ELSE {<<sc.x, sc.y>> : sc \in {sc \in Scenarios : /\ sc.width = g.width
                                                     /\ sc.height = g.height}}

\* The draws that place the mines in the order of the scan: every board
\* gen_board can make of g is made by one of them.
RECURSIVE OrderedDraws(_, _, _)
OrderedDraws(len, count, from) ==
    IF count = 0 THEN {<<>>}
    ELSE UNION {{<<d>> \o rest : rest \in OrderedDraws(len - 1, count - 1, d)} :
                  d \in from..(len - 1)}

PlayDraws(g) == OrderedDraws(Len(g.fields), g.num_mines, 0)

\* The small games Game::new returns with max mines as the end of its range.
SmallGames(max, unambigous) ==
    {Game_new(SmallBoard.width, SmallBoard.height, n, u) :
        n \in GenRange(0, max), u \in unambigous}

\* The games of the scenarios: with as many mines as the scenario has, and
\* (gen/test.rs) with none, the mines being placed by hand afterwards.
ScenarioGames ==
    {Game_new(sc.width, sc.height, Len(sc.mines), TRUE) : sc \in Scenarios}
    \cup {Game_new(sc.width, sc.height, 0, FALSE) : sc \in TestBoards}

NoCall ==
    [op |-> "none", x |-> 0, y |-> 0, ret |-> "none", solvable |-> FALSE,
     retried |-> FALSE, low |-> 0]

Called(op, x, y) == [NoCall EXCEPT !.op = op, !.x = x, !.y = y]

NoIter == CombinationIter_new(0, 0)

\* Where the model lets the player click or hint on g: every field, and one
\* place off each side of the board.
Places(g) ==
    ((0..(g.width - 1)) \X (0..(g.height - 1)))
    \cup {<<-1, 0>>, <<0, -1>>, <<g.width, 0>>, <<0, g.height>>}

-----------------------------------------------------------------------------
(* SpecComb: one CombinationIter *)

InitComb ==
    /\ \E n \in 0..MaskLen : \E k \in 0..n : iter = CombinationIter_new(n, k)
    /\ item = None
    /\ yielded = <<>>
    /\ game = Game_new(1, 1, 0, FALSE)
    /\ board = game
    /\ before = game
    /\ call = NoCall
    /\ pc = "iter"

\* A call of next() on the iterator; a caller stops at the first None.
Next_ ==
    /\ pc = "iter"
    /\ Len(yielded) < MaxYield
    /\ ~(item = None /\ iter.stop)
    /\ LET r == CombinationIter_next(iter)
       IN  /\ iter' = r.it
           /\ item' = r.item
           /\ yielded' = IF r.item.some THEN Append(yielded, r.item.val) ELSE yielded
    /\ UNCHANGED <<game, board, before, call, pc>>

NextComb == Next_

SpecComb == InitComb /\ [][NextComb]_vars

-----------------------------------------------------------------------------
(* SpecValidate: a board is built, then asked to validate itself *)

InitValidate ==
    /\ iter = NoIter
    /\ item = None
    /\ yielded = <<>>
    /\ game \in SmallGames(MaxMines, {TRUE}) \cup ScenarioGames
    /\ board = game
    /\ before = game
    /\ call = NoCall
    /\ pc = "new"

\* game.gen_board() on the new game.
GenBoard ==
    /\ pc = "new"
    /\ \E draws \in GenDraws(game) : game' = gen_board(game, draws)
    /\ board' = game'
    /\ before' = game
    /\ call' = Called("gen_board", 0, 0)
    /\ pc' = "board"
    /\ UNCHANGED <<iter, item, yielded>>

\* game.clear_board(); game.gen_board(), as the loop of the first click calls
\* them on a board it does not keep.
Regenerate ==
    /\ pc = "board"
    /\ call.op = "gen_board"
    /\ IsSmall(game)
    /\ \E draws \in GenDraws(game) : game' = gen_board(clear_board(game), draws)
    /\ board' = game'
    /\ before' = game
    /\ call' = [Called("gen_board", 0, 0) EXCEPT !.retried = TRUE]
    /\ pc' = "regenerated"
    /\ UNCHANGED <<iter, item, yielded>>

\* gen/test.rs: a test places its mines on a game made with no mines.
TestPlaceMines ==
    /\ pc = "new"
    /\ game.num_mines = 0
    /\ \E sc \in TestBoards :
        /\ sc.width = game.width /\ sc.height = game.height
        /\ game' = PlaceMines(game, sc.mines, 1)
    /\ board' = game'
    /\ before' = game
    /\ call' = Called("place_mine", 0, 0)
    /\ pc' = "board"
    /\ UNCHANGED <<iter, item, yielded>>

\* The call op(x, y) on the game has returned r.
Returned(op, x, y, r, ret, ok) ==
    /\ game' = r.self
    /\ board' = r.board
    /\ call' = [Called(op, x, y) EXCEPT !.ret = ret,
                                       !.solvable = ok /\ Solvable(game, x, y),
                                       !.low = r.low]
    /\ before' = game
    /\ pc' = "returned"
    /\ UNCHANGED <<iter, item, yielded>>

ValidateReturned(x, y, r) ==
    Returned("validate_board", x, y, r, r.ret, r.ret = "Ok")

\* game.validate_board(x, y)
CallValidateBoard ==
    /\ pc = "board"
    /\ \E c \in Starts(game) :
         ValidateReturned(c[1], c[2], validate_board(game, c[1], c[2]))

UnambigousReturned(x, y, r) ==
    Returned("is_unambigous", x, y, r, IF r.ret THEN "true" ELSE "false", r.ret)

\* game.is_unambigous(x, y)
CallIsUnambigous ==
    /\ pc = "board"
    /\ \E c \in Starts(game) :
         UnambigousReturned(c[1], c[2], is_unambigous(game, c[1], c[2]))

NextValidate ==
    \/ GenBoard
    \/ Regenerate
    \/ TestPlaceMines
    \/ CallValidateBoard
    \/ CallIsUnambigous

SpecValidate == InitValidate /\ [][NextValidate]_vars

-----------------------------------------------------------------------------
(* Spec: the game as played *)

Init ==
    /\ iter = NoIter
    /\ item = None
    /\ yielded = <<>>
    /\ game \in SmallGames(PlayMines, BOOLEAN)
    /\ board = game
    /\ before = game
    /\ call = NoCall
    /\ pc = "idle"

\* Minesweeper::new_game
NewGame ==
    /\ pc = "idle"
    /\ game' \in SmallGames(PlayMines, BOOLEAN)
    /\ call' = NoCall
    /\ UNCHANGED <<iter, item, yielded, board, before, pc>>

\* The loop of the first click from its top, with the board g that
\* gen_board has just made and what validate_board says of it: control leaves
\* the loop with g, or goes round it and clears g.
LoopTest(x, y, g, retried, v) ==
    /\ call' = [Called("click", x, y) EXCEPT
                   !.ret = IF At(g, x, y).state = Free(0) /\ g.unambigous
                           THEN v.ret ELSE "none",
                   !.retried = retried]
    /\ IF Breaks(g, x, y, Unambigous(g, v))
       THEN game' = g /\ pc' = "break"
       ELSE game' = clear_board(g) /\ pc' = "retry"
    /\ UNCHANGED <<iter, item, yielded, board, before>>

LoopTop(x, y, g, retried) == LoopTest(x, y, g, retried, validate_board(g, x, y))

\* Game::click on a game in state Init: gen_board and the top of the loop.
FirstClick ==
    /\ pc = "idle"
    /\ game.play_state = "Init"
    /\ \E x \in 0..(game.width - 1), y \in 0..(game.height - 1) :
         \E draws \in PlayDraws(game) : LoopTop(x, y, gen_board(game, draws), FALSE)

\* The loop once round: gen_board on the cleared board and the top of the loop.
ClickRetry ==
    /\ pc = "retry"
    /\ \E draws \in PlayDraws(game) :
         LoopTop(call.x, call.y, gen_board(game, draws), TRUE)

\* After the loop: the game is Playing and the click goes on to the field.
ClickBreak ==
    /\ pc = "break"
    /\ game' = ClickField([game EXCEPT !.play_state = "Playing"], call.x, call.y)
    /\ call' = NoCall
    /\ pc' = "idle"
    /\ UNCHANGED <<iter, item, yielded, board, before>>

\* Game::click on a game that is Playing, or anywhere out of bounds.
Click ==
    /\ pc = "idle"
    /\ game.play_state \in {"Init", "Playing"}
    /\ \E p \in Places(game) :
         /\ game.play_state = "Init" => ~is_in_bounds(game, p[1], p[2])
         /\ game' = IF is_in_bounds(game, p[1], p[2])
                    THEN ClickField(game, p[1], p[2]) ELSE game
    /\ call' = NoCall
    /\ UNCHANGED <<iter, item, yielded, board, before, pc>>

\* Minesweeper::hint -> Game::hint_, while the game is Init or Playing.
Hint ==
    /\ pc = "idle"
    /\ game.play_state \in {"Init", "Playing"}
    /\ \E p \in Places(game) :
         /\ game' = hint_(game, p[1], p[2])
         /\ Cardinality({i \in DOMAIN game'.fields :
                           game'.fields[i].visibility = "Hint"}) <= MaxHints
    /\ call' = NoCall
    /\ UNCHANGED <<iter, item, yielded, board, before, pc>>

Next ==
    \/ NewGame
    \/ FirstClick
    \/ ClickRetry
    \/ ClickBreak
    \/ Click
    \/ Hint

Spec == Init /\ [][Next]_vars

-----------------------------------------------------------------------------
(* The claims *)

\* The number of Mine fields of g.
MineCount(g) == Cardinality({i \in DOMAIN g.fields : g.fields[i].state = Mine})

\* Every free field of g holds the number of mines among its neighbours.
ConsistentCounts(g) ==
    \A i \in DOMAIN g.fields :
        g.fields[i].state # Mine =>
            g.fields[i].state =
                Cardinality({n \in Neighbours(g, i) : g.fields[n].state = Mine})

NoHints(g) == \A i \in DOMAIN g.fields : g.fields[i].visibility # "Hint"

\* g is on the board of scenario sc: its size, and mines exactly where sc
\* has them.
HasMines(g, sc) ==
    /\ g.width = sc.width
    /\ g.height = sc.height
    /\ {i \in DOMAIN g.fields : g.fields[i].state = Mine}
         = {Idx(g, sc.mines[j][1], sc.mines[j][2]) : j \in 1..Len(sc.mines)}

\* validate_board has returned from the call the scenario sc makes.
Asked(sc) ==
    /\ pc = "returned"
    /\ call.op = "validate_board"
    /\ call.x = sc.x
    /\ call.y = sc.y
    /\ HasMines(before, sc)

\* C(n, k)
RECURSIVE Binomial(_, _)
Binomial(n, k) ==
    IF k = 0 \/ k = n THEN 1 ELSE Binomial(n - 1, k - 1) + Binomial(n - 1, k)

\* C1: certification is sound. Whenever is_unambigous(x, y) returns true or
\* validate_board(x, y) returns Ok on a board with consistent neighbour
\* counts, no hinted field and num_mines equal to its number of mines, the
\* board can be solved from (x, y) without a guess: the reveals that start at
\* (x, y) and go on only to fields that are free in every placement of
\* num_mines mines agreeing with the numbers shown reach every free field.
C1_CertifiedIsSolvable ==
    (/\ pc = "returned"
     /\ call.ret \in {"Ok", "true"}
     /\ ConsistentCounts(before)
     /\ NoHints(before)
     /\ MineCount(before) = before.num_mines)
    => call.solvable

\* C2: when the loop of the first click of a game with `unambigous` set is
\* left, the board that is kept has Free(0) at the clicked field and
\* validate_board on it returned Ok; a board of which validate_board returned
\* Invalid or Ambigous is never the one kept: the loop goes round, the board
\* cleared.
C2_AcceptedBoardIsValid ==
    /\ (pc = "break" /\ game.unambigous) =>
          (At(game, call.x, call.y).state = Free(0) /\ call.ret = "Ok")
    /\ (pc \in {"break", "retry"} /\ call.ret \in {"Invalid", "Ambigous"}) =>
          (/\ pc = "retry"
           /\ game.play_state = "Init"
           /\ \A i \in DOMAIN game.fields : game.fields[i].state = Free(0))

\* A board with mines is kept after the loop went round at least once.
C2_Witness ==
    /\ pc = "break"
    /\ game.unambigous
    /\ call.retried
    /\ call.ret = "Ok"
    /\ MineCount(game) = 2

\* C3: for 0 <= k <= n <= 8 an iterator that has ended has yielded exactly
\* C(n, k) masks, all distinct, each with exactly k true entries, all among
\* the positions 0..n-1: every subset of size k once.
C3_YieldsEverySubsetOnce ==
    (iter.stop /\ item = None) =>
        /\ Len(yielded) = Binomial(iter.n, iter.k)
        /\ \A i, j \in 1..Len(yielded) : yielded[i] = yielded[j] => i = j
        /\ \A i \in 1..Len(yielded) :
              /\ Cardinality(MaskSet(yielded[i])) = iter.k
              /\ MaskSet(yielded[i]) \subseteq 0..(iter.n - 1)

\* C4: CombinationIter::new(n, 0) yields one item, the all-false mask, and
\* then ends: after the first item the next call of next() returns None.
C4_TakeNoneYieldsOnce ==
    (pc = "iter" /\ iter.k = 0) =>
        /\ Len(yielded) <= 1
        /\ \A i \in 1..Len(yielded) : yielded[i] = NoBits
        /\ yielded # <<>> => ~CombinationIter_next(iter).item.some

\* C5: after gen_board on a board whose fields are all Free(0), the new board
\* or the board clear_board has just cleared, exactly num_mines fields are
\* Mine and every free field holds the number of mines among its neighbours.
C5_GeneratedBoard ==
    (pc \in {"board", "regenerated"} /\ call.op = "gen_board") =>
        (MineCount(game) = game.num_mines /\ ConsistentCounts(game))

\* gen_board has run on a cleared board and put two mines next to one field.
C5_Witness ==
    /\ pc = "regenerated"
    /\ call.op = "gen_board"
    /\ game # before
    /\ MineCount(game) >= 2
    /\ \E i \in DOMAIN game.fields : game.fields[i].state = Free(2)

\* C6: validation does not change the game it is called on: when
\* is_unambigous or validate_board has returned, with whatever result, the
\* game (every field's visibility and state, width, height, num_mines and
\* play_state) is as it was before the call.
C6_ReceiverUnchanged == pc = "returned" => game = before

\* A call has returned whose working board was changed.
C6_Witness ==
    /\ pc = "returned"
    /\ call.op = "is_unambigous"
    /\ call.ret = "false"
    /\ board # before
    /\ \E i \in DOMAIN board.fields : board.fields[i].visibility = "Hint"

\* C7: on the 5x5 board with mines exactly at (3,1), (2,2), (1,3),
\* validate_board(0, 0) returns Err, Ambigous or Invalid, and never Ok.
C7_AmbigousBoardRejected ==
    Asked(ambigous_board) => call.ret \in {"Invalid", "Ambigous"}

\* The board with its three mines counted is found Ambigous.
C7_Witness ==
    /\ Asked(ambigous_board)
    /\ before.num_mines = 3
    /\ call.ret = "Ambigous"

\* C8: on the game of test ambigous_board, made with no mines (num_mines = 0)
\* and the mines (3,1), (2,2), (1,3) placed by hand, validate_board(0, 0)
\* returns Err(Invalid), not Err(Ambigous).
C8_TestBoardInvalid ==
    (Asked(ambigous_board) /\ before.num_mines = 0) => call.ret = "Invalid"

\* The call of the test has returned Invalid, from guess_mines: the working
\* board is past the first reveal and has a hint.
C8_Witness ==
    /\ Asked(ambigous_board)
    /\ before.num_mines = 0
    /\ call.ret = "Invalid"
    /\ \E i \in DOMAIN board.fields : board.fields[i].visibility = "Hint"

\* C9: on the 5x5 board with mines exactly at (2,2) and (2,3),
\* validate_board(0, 0) returns Ok.
C9_SolvableBoard1Ok == Asked(solvable_board_1) => call.ret = "Ok"

\* The call has returned Ok with every free field of the working board shown.
C9_Witness ==
    /\ Asked(solvable_board_1)
    /\ call.ret = "Ok"
    /\ is_solved(board)
    /\ ~is_solved(before)

\* C10: on the board of width 4 and height 5 with mines exactly at (0,3),
\* (1,2), (2,2), (0,4), validate_board(0, 0) returns Ok.
C10_SolvableBoard2Ok == Asked(solvable_board_2) => call.ret = "Ok"


\* C11: on a board whose num_mines is the number of its mines, with the mines
\* exactly at (2,2) and (1,3) on 5x5, or those of test solvable_board_3 on 9x5,
\* validate_board(0, 0) returns Ok: rules A and B stall, the hypothesis
\* search finds the one hypothesis that lets deduction finish.
C11_GuessedBoardsOk ==
    ((Asked(solvable_board_4) \/ Asked(solvable_board_3))
        /\ before.num_mines = MineCount(before))
    => call.ret = "Ok"

\* The offsets of the eight neighbours: NW, N, NE, E, SE, S, SW, W.
ClockwiseFromNW ==
    << <<-1, -1>>, <<0, -1>>, <<1, -1>>, <<1, 0>>,
       <<1, 1>>, <<0, 1>>, <<-1, 1>>, <<-1, 0>> >>

\* The offsets, clockwise from NW, of the neighbours of (x, y) that are on
\* the board and have visibility v.
NeighbourOffsets(g, x, y, v) ==
    LET OnBoardWith(o) ==
            /\ x + o[1] >= 0 /\ x + o[1] < g.width
            /\ y + o[2] >= 0 /\ y + o[2] < g.height
            /\ g.fields[(y + o[2]) * g.width + (x + o[1]) + 1].visibility = v
    IN  SelectSeq(ClockwiseFromNW, OnBoardWith)

\* 3 for a corner, 5 for a field on one edge, 8 for a field inside.
NeighbourCount(g, x, y) ==
    LET onEdgeX == x = 0 \/ x = g.width - 1
        onEdgeY == y = 0 \/ y = g.height - 1
    IN  IF onEdgeX /\ onEdgeY THEN 3 ELSE IF onEdgeX \/ onEdgeY THEN 5 ELSE 8

AllHidden(g) == \A i \in DOMAIN g.fields : g.fields[i].visibility = "Hide"

\* C12: for every field (x, y) of the game and of the working board,
\* hidden_adjacents(x, y).offsets() and hinted_adjacents(x, y).offsets() list
\* the offsets of the neighbours on the board that are hidden, resp. hinted,
\* clockwise from NW, num() is the length of the list, and on a 5x5 board
\* with every field hidden num() is 3 in a corner, 5 on an edge, 8 inside.
C12_AdjacentsListNeighbours ==
    \A g \in {game, board} :
        \A x \in 0..(g.width - 1), y \in 0..(g.height - 1) :
            /\ offsets(hidden_adjacents(g, x, y)) = NeighbourOffsets(g, x, y, "Hide")
            /\ offsets(hinted_adjacents(g, x, y)) = NeighbourOffsets(g, x, y, "Hint")
            /\ num(hidden_adjacents(g, x, y)) = Len(offsets(hidden_adjacents(g, x, y)))
            /\ num(hinted_adjacents(g, x, y)) = Len(offsets(hinted_adjacents(g, x, y)))
            /\ (g.width = 5 /\ g.height = 5 /\ AllHidden(g))
                   => num(hidden_adjacents(g, x, y)) = NeighbourCount(g, x, y)

\* A 5x5 game with every field hidden, and a working board of it on which a
\* field has a hinted and a hidden neighbour.
C12_Witness ==
    /\ game.width = 5 /\ game.height = 5 /\ AllHidden(game)
    /\ pc = "returned"
    /\ \E x \in 0..(board.width - 1), y \in 0..(board.height - 1) :
         /\ num(hinted_adjacents(board, x, y)) > 0
         /\ num(hidden_adjacents(board, x, y)) > 0

\* The maximal 8-connected region of Free(0) fields of g around the fields R.
RECURSIVE ZeroRegion(_, _)
ZeroRegion(g, R) ==
    LET more == {n \in UNION {Neighbours(g, i) : i \in R} :
                    g.fields[n].state = Free(0)} \ R
    IN  IF more = {} THEN R ELSE ZeroRegion(g, R \cup more)

\* The region of the Free(0) field at position i with all its neighbours.
Closure(g, i) ==
    ZeroRegion(g, {i}) \cup UNION {Neighbours(g, j) : j \in ZeroRegion(g, {i})}

\* The hidden Free(0) fields a click can reveal: those of a game that is
\* Playing, and the field of the first click once its loop has kept a board.
HiddenZeros ==
    {c \in (0..(game.width - 1)) \X (0..(game.height - 1)) :
        /\ \/ pc = "idle" /\ game.play_state = "Playing"
           \/ pc = "break" /\ call.x = c[1] /\ call.y = c[2]
        /\ At(game, c[1], c[2]).visibility = "Hide"
        /\ At(game, c[1], c[2]).state = Free(0)
        /\ ConsistentCounts(game)}

\* The game after click(x, y), past the loop of a first click.
Clicked(x, y) == ClickField([game EXCEPT !.play_state = "Playing"], x, y)

ShownIn(g, S) == \A i \in S : g.fields[i].visibility = "Show"

SameVisibility(g, S) ==
    \A i \in S : g.fields[i].visibility = game.fields[i].visibility

\* C13 as stated: a click on a hidden Free(0) field shows the fields of its
\* closure and changes the visibility of no field outside it.
C13_ClickShowsClosureOnly ==
    \A c \in HiddenZeros :
        /\ ShownIn(Clicked(c[1], c[2]), Closure(game, Idx(game, c[1], c[2])))
        /\ SameVisibility(Clicked(c[1], c[2]),
                          DOMAIN game.fields \ Closure(game, Idx(game, c[1], c[2])))

\* C13: a click on a hidden Free(0) field shows the fields of its closure;
\* it changes the visibility of no field outside the closure unless it wins
\* the game, and then every field is shown.
C13_ClickShowsClosure ==
    \A c \in HiddenZeros :
        /\ ShownIn(Clicked(c[1], c[2]), Closure(game, Idx(game, c[1], c[2])))
        /\ IF Clicked(c[1], c[2]).play_state = "Won"
           THEN ShownIn(Clicked(c[1], c[2]), DOMAIN game.fields)
           ELSE SameVisibility(Clicked(c[1], c[2]),
                               DOMAIN game.fields \ Closure(game, Idx(game, c[1], c[2])))

\* A game in play with a Free(0) field shown and a free field still hidden:
\* a flood has stopped at the edge of its closure.
C13_Witness ==
    /\ pc = "idle"
    /\ game.play_state = "Playing"
    /\ \E i \in DOMAIN game.fields :
         game.fields[i].state = Free(0) /\ game.fields[i].visibility = "Show"
    /\ \E i \in DOMAIN game.fields :
         game.fields[i].state # Mine /\ game.fields[i].visibility = "Hide"

\* The board g with the visibility of every mine set to v.
MinesSeen(g, v) ==
    [g EXCEPT !.fields = [i \in DOMAIN g.fields |->
                             IF g.fields[i].state = Mine
                             THEN [g.fields[i] EXCEPT !.visibility = v]
                             ELSE g.fields[i]]]

\* C14: is_solved() is true exactly when the free fields are all among the
\* shown fields, and it is the same whatever the visibility of the mines.
C14_SolvedIffFreeShown ==
    \A g \in {game, board} :
        /\ is_solved(g) <=>
              {i \in DOMAIN g.fields : g.fields[i].state # Mine}
                 \subseteq {i \in DOMAIN g.fields : g.fields[i].visibility = "Show"}
        /\ \A v \in {"Hide", "Hint", "Show"} : is_solved(MinesSeen(g, v)) <=> is_solved(g)

\* validate_board has left a solved working board with a mine that is hinted
\* and a mine that is hidden, from a game that is not solved.
C14_Witness ==
    /\ pc = "returned"
    /\ is_solved(board)
    /\ ~is_solved(game)
    /\ \E i \in DOMAIN board.fields :
         board.fields[i].state = Mine /\ board.fields[i].visibility = "Hint"
    /\ \E i \in DOMAIN board.fields :
         board.fields[i].state = Mine /\ board.fields[i].visibility = "Hide"

\* C15: after a clear_board() of the loop of the first click every field is
\* Free(0) and hidden: no mine, no number, no hinted and no shown field.
C15_ClearedBoardIsBlank ==
    pc = "retry" =>
        \A i \in DOMAIN game.fields :
            game.fields[i].state = Free(0) /\ game.fields[i].visibility = "Hide"

\* Game::click(x, y) on the game as it is.
ClickAt(x, y) == IF is_in_bounds(game, x, y) THEN ClickField(game, x, y) ELSE game

\* (x, y) is off the board, or a shown field of it.
OffBoardOrShown(x, y) ==
    ~is_in_bounds(game, x, y) \/ At(game, x, y).visibility = "Show"

\* The shown field (x, y) has as many hinted neighbours as its number says,
\* and a hidden neighbour.
Chords(x, y) ==
    /\ is_in_bounds(game, x, y)
    /\ At(game, x, y).visibility = "Show"
    /\ num(hinted_adjacents(game, x, y)) = At(game, x, y).state
    /\ num(hidden_adjacents(game, x, y)) > 0

\* C16 as stated: on a game that is Playing, show_neighbors and click leave
\* the game as it is when the place is off the board or a shown field.
C16_RevealIsNoOp ==
    (pc = "idle" /\ game.play_state = "Playing") =>
        \A p \in Places(game) :
            OffBoardOrShown(p[1], p[2]) =>
                /\ show_neighbors(game, p[1], p[2]) = game
                /\ ClickAt(p[1], p[2]) = game

\* C16: on a game that is Playing, show_neighbors leaves the game as it is
\* when the place is off the board or a shown field, and so does click,
\* unless the shown field has as many hinted neighbours as its number says
\* and a hidden neighbour.
C16_RevealIsNoOpUnlessChord ==
    (pc = "idle" /\ game.play_state = "Playing") =>
        \A p \in Places(game) :
            OffBoardOrShown(p[1], p[2]) =>
                /\ show_neighbors(game, p[1], p[2]) = game
                /\ ~Chords(p[1], p[2]) => ClickAt(p[1], p[2]) = game

\* A game in play with a shown field that a click changes nothing on, and a
\* shown field whose hinted neighbours are as many as its number, with a
\* hidden neighbour left.
C16_Witness ==
    /\ pc = "idle"
    /\ game.play_state = "Playing"
    /\ \E p \in Places(game) : Chords(p[1], p[2])
    /\ \E p \in Places(game) :
         /\ is_in_bounds(game, p[1], p[2])
         /\ At(game, p[1], p[2]).visibility = "Show"
         /\ ~Chords(p[1], p[2])

IsHinted(field) == field.visibility = "Hint"

\* C17: open_mine_count() is num_mines less the number of hinted fields, and
\* when validate_board has run on a board without hinted fields whose
\* num_mines is the number of its mines, it was negative on none of the
\* boards the call has worked on: the working board and the hypothesis
\* boards of guess_mines.
C17_OpenMineCountNotNegative ==
    /\ \A g \in {game, board} :
         open_mine_count(g) = g.num_mines - Len(SelectSeq(g.fields, IsHinted))
    /\ (pc = "returned" /\ NoHints(before) /\ before.num_mines = MineCount(before))
          => (call.low >= 0 /\ open_mine_count(board) >= 0)

\* validate_board has returned from a board with mines, and a hypothesis
\* board of it had a hint for every mine.
C17_Witness ==
    /\ pc = "returned"
    /\ call.op = "validate_board"
    /\ NoHints(before)
    /\ before.num_mines = MineCount(before)
    /\ before.num_mines > 0
    /\ call.low = 0
    /\ open_mine_count(board) > 0

\* The fields of g and h hold the same content.
SameContent(g, h) ==
    \A i \in DOMAIN g.fields : h.fields[i].state = g.fields[i].state

\* h differs from g at most in mines that were hidden and are hinted.
OnlyMinesHinted(g, h) ==
    /\ SameContent(g, h)
    /\ \A i \in DOMAIN g.fields :
         h.fields[i].visibility # g.fields[i].visibility =>
             /\ g.fields[i].state = Mine
             /\ g.fields[i].visibility = "Hide"
             /\ h.fields[i].visibility = "Hint"

\* C18 as stated: on a solved board solve_board(x, y, true) returns Ok for
\* every field (x, y), and leaves the board as it is.
C18_SolvedBoardUnchanged ==
    is_solved(board) =>
        \A x \in 0..(board.width - 1), y \in 0..(board.height - 1) :
            /\ solve_board(board, x, y, TRUE).ok
            /\ solve_board(board, x, y, TRUE).g = board

\* C18: on a solved board solve_board(x, y, true) on a free field returns Ok,
\* changes no content and shows nothing, but rule A may hint hidden mines
\* next to the field; the same call again then changes nothing. On a mine it
\* leaves the board as it is, and returns Err exactly when the mine is hidden.
C18_SolvedBoardOnlyHinted ==
    is_solved(board) =>
        \A x \in 0..(board.width - 1), y \in 0..(board.height - 1) :
            IF At(board, x, y).state = Mine
            THEN /\ solve_board(board, x, y, TRUE).g = board
                 /\ solve_board(board, x, y, TRUE).ok
                       <=> At(board, x, y).visibility # "Hide"
            ELSE /\ solve_board(board, x, y, TRUE).ok
                 /\ OnlyMinesHinted(board, solve_board(board, x, y, TRUE).g)
                 /\ solve_board(solve_board(board, x, y, TRUE).g, x, y, TRUE)
                       = solve_board(board, x, y, TRUE)

\* validate_board has left a solved working board with a hidden mine and a
\* hinted mine.
C18_Witness ==
    /\ pc = "returned"
    /\ call.ret = "Ok"
    /\ is_solved(board)
    /\ \E i \in DOMAIN board.fields :
         board.fields[i].state = Mine /\ board.fields[i].visibility = "Hide"
    /\ \E i \in DOMAIN board.fields :
         board.fields[i].state = Mine /\ board.fields[i].visibility = "Hint"
    /\ \E x \in 0..(board.width - 1), y \in 0..(board.height - 1) :
         solve_board(board, x, y, TRUE).g # board

\* The positions of a mask as an ascending tuple.
IndexTuple(m) ==
    [j \in 1..Cardinality(MaskSet(m)) |->
        CHOOSE e \in MaskSet(m) :
            Cardinality({s \in MaskSet(m) : s < e}) = j - 1]

\* a comes before b in the lexicographic order of tuples.
LexLess(a, b) ==
    \/ \E p \in 1..Len(a) :
         /\ p <= Len(b)
         /\ \A q \in 1..(p - 1) : a[q] = b[q]
         /\ a[p] < b[p]
    \/ /\ Len(a) < Len(b)
       /\ \A q \in 1..Len(a) : a[q] = b[q]

\* C19: the first mask an iterator yields is {0..k-1}, and the index tuple
\* of every later mask is lexicographically greater than the one before it.
C19_MasksAscend ==
    /\ yielded # <<>> => MaskSet(yielded[1]) = 0..(iter.k - 1)
    /\ \A j \in 2..Len(yielded) :
         LexLess(IndexTuple(yielded[j - 1]), IndexTuple(yielded[j]))

\* Every hinted field of g is a mine and every shown field is free.
Sound(g) ==
    \A i \in DOMAIN g.fields :
        /\ g.fields[i].visibility = "Hint" => g.fields[i].state = Mine
        /\ g.fields[i].visibility = "Show" => g.fields[i].state # Mine

\* solve_board(x, y, true) on g, and then the passes over the shown fields
\* until a pass changes nothing, as validate_board runs them before it guesses.
Deduced(g, x, y) ==
    IF SolveStep(g, x, y).ret # "Continue" THEN SolveStep(g, x, y)
    ELSE SolveFixedPoint(SolveStep(g, x, y).board,
                         SolvePass(SolveStep(g, x, y).board))

\* C20: on a board with consistent numbers whose hints are all on mines and
\* whose shown fields are all free (the board validate_board was called on,
\* and the working board it has left), solve_board(x, y, true) on a free field
\* that is hidden or shown returns Ok, changes no content, hints only mines
\* and shows only free fields; so does the deduction that validate_board runs
\* from any free field of a board without hints.
C20_DeductionIsSound ==
    /\ \A g \in {before, board} :
         (pc = "returned" /\ ConsistentCounts(g) /\ Sound(g)) =>
             \A x \in 0..(g.width - 1), y \in 0..(g.height - 1) :
                 (At(g, x, y).state # Mine /\ At(g, x, y).visibility # "Hint") =>
                     /\ solve_board(g, x, y, TRUE).ok
                     /\ SameContent(g, solve_board(g, x, y, TRUE).g)
                     /\ Sound(solve_board(g, x, y, TRUE).g)
    /\ (pc = "returned" /\ ConsistentCounts(before) /\ NoHints(before) /\ Sound(before)) =>
         \A x \in 0..(before.width - 1), y \in 0..(before.height - 1) :
             At(before, x, y).state # Mine =>
                 /\ Deduced(before, x, y).ret # "Invalid"
                 /\ SameContent(before, Deduced(before, x, y).board)
                 /\ Sound(Deduced(before, x, y).board)

\* validate_board was called on a free field of a consistent board without
\* hints, and its deduction hinted a mine, showed a numbered field and came
\* to a stop with a free field still hidden.
C20_Witness ==
    /\ pc = "returned"
    /\ ConsistentCounts(before) /\ NoHints(before) /\ Sound(before)
    /\ At(before, call.x, call.y).state # Mine
    /\ Deduced(before, call.x, call.y).ret = "Continue"
    /\ \E i \in DOMAIN before.fields :
         Deduced(before, call.x, call.y).board.fields[i].visibility = "Hint"
    /\ \E i \in DOMAIN before.fields :
         /\ Deduced(before, call.x, call.y).board.fields[i].visibility = "Hide"
         /\ before.fields[i].state # Mine

\* board.guess_mines(0, board.width, 0, board.height, 0), as validate_board
\* calls it.
TopGuess(g) == guess_mines(g, 0, g.width, 0, g.height, 0)

\* The boards on which validate_board, working on b from (x, y), calls
\* guess_mines, in the order of the calls; d is where its deduction ends.
RECURSIVE GuessCalls(_, _, _)
GuessCallsAfter(d, x, y) ==
    IF d.ret # "Continue" THEN <<>>
    ELSE IF TopGuess(d.board).tag # "Progress" THEN <<d.board>>
    ELSE <<d.board>> \o GuessCalls(TopGuess(d.board).g, x, y)

GuessCalls(b, x, y) == GuessCallsAfter(Deduced(b, x, y), x, y)

\* The boards at the top of the passes of the inner loop of validate_board
\* that starts with `copy`, in order; the last is the board of the last pass.
RECURSIVE Passes(_)
PassesAfter(copy, r) ==
    IF r.ret # "Continue" \/ r.board = copy THEN <<copy>>
    ELSE <<copy>> \o Passes(r.board)

Passes(copy) == PassesAfter(copy, SolvePass(copy))

\* The boards on which validate_board starts its inner loop.
LoopStarts(b, x, y) ==
    {SolveStep(g, x, y).board :
        g \in {g \in {b} \cup {TopGuess(GuessCalls(b, x, y)[k]).g :
                                  k \in 1..(Len(GuessCalls(b, x, y)) - 1)} :
                 SolveStep(g, x, y).ret = "Continue"}}

HintCount(g) == Len(SelectSeq(g.fields, IsHinted))

IsHidden(field) == field.visibility = "Hide"

HiddenCount(g) == Len(SelectSeq(g.fields, IsHidden))

\* h is g with at least one hidden field hinted or shown, and nothing else
\* changed.
Uncovers(g, h) ==
    /\ SameContent(g, h)
    /\ \A i \in DOMAIN g.fields :
         h.fields[i].visibility # g.fields[i].visibility =>
             g.fields[i].visibility = "Hide"
    /\ HiddenCount(h) < HiddenCount(g)

\* Every pass of the inner loops of the call that is not the last of its
\* loop has hinted or shown a hidden field.
EachUncovers(ps) == \A k \in 1..(Len(ps) - 1) : Uncovers(ps[k], ps[k + 1])

PassesUncover ==
    \A c \in LoopStarts(before, call.x, call.y) : EachUncovers(Passes(c))

\* Every Progress board that guess_mines has returned to the call has more
\* hinted fields than the board guess_mines was called on.
MoreHints(g, r) == r.tag = "Progress" => HintCount(r.g) > HintCount(g)

EachProgressHints(gs) == \A k \in 1..Len(gs) : MoreHints(gs[k], TopGuess(gs[k]))

ProgressHints == EachProgressHints(GuessCalls(before, call.x, call.y))

\* guess_mines, called on each of the boards gs, nests no deeper than the
\* open_mine_count() of the board.
NestsWithinBudget(gs) ==
    \A k \in 1..Len(gs) : TopGuess(gs[k]).deep <= open_mine_count(gs[k])

\* The same, a negative open_mine_count() counting as none.
NestsWithin(gs) ==
    \A k \in 1..Len(gs) : TopGuess(gs[k]).deep <= Max(open_mine_count(gs[k]), 0)

\* C21 as stated: validate_board returns Ok or Err, every pass but the last
\* uncovers a field, every Progress board has more hints, and guess_mines
\* nests no deeper than the open_mine_count() of the board of its top call.
C21_TerminatesWithinBudget ==
    pc = "returned" =>
        /\ call.ret \in {"Ok", "Invalid", "Ambigous", "true", "false"}
        /\ PassesUncover
        /\ ProgressHints
        /\ NestsWithinBudget(GuessCalls(before, call.x, call.y))

\* C21: validate_board returns Ok or Err, every pass but the last uncovers a
\* field, every Progress board has more hints, and guess_mines nests no
\* deeper than the open_mine_count() of the board of its top call where that
\* is not negative, and not at all where it is.
C21_Terminates ==
    pc = "returned" =>
        /\ call.ret \in {"Ok", "Invalid", "Ambigous", "true", "false"}
        /\ PassesUncover
        /\ ProgressHints
        /\ NestsWithin(GuessCalls(before, call.x, call.y))

NestedProgress(gs) ==
    \E k \in 1..Len(gs) : TopGuess(gs[k]).tag = "Progress" /\ TopGuess(gs[k]).deep >= 1

\* validate_board has returned from a call in which guess_mines, nesting,
\* returned a Progress board.
C21_Witness ==
    /\ pc = "returned"
    /\ call.op = "validate_board"
    /\ \E c \in LoopStarts(before, call.x, call.y) : Len(Passes(c)) >= 1
    /\ NestedProgress(GuessCalls(before, call.x, call.y))

\* Rule A or rule B of solve_board would act at the shown numbered field at
\* position i of g, which has a hidden neighbour.
RuleApplies(g, i) ==
    /\ ShownFree(g, i)
    /\ g.fields[i].state > Free(0)
    /\ num(hidden_adjacents(g, XOf(g, i), YOf(g, i))) >= 1
    /\ \/ g.fields[i].state - num(hinted_adjacents(g, XOf(g, i), YOf(g, i)))
            = num(hidden_adjacents(g, XOf(g, i), YOf(g, i)))
       \/ num(hinted_adjacents(g, XOf(g, i), YOf(g, i))) = g.fields[i].state

\* g is unsolved, and neither rule applies anywhere on it.
UnsolvedFixedPoint(g) ==
    ~is_solved(g) /\ \A i \in DOMAIN g.fields : ~RuleApplies(g, i)

AllUnsolvedFixedPoints(gs) == \A k \in 1..Len(gs) : UnsolvedFixedPoint(gs[k])

\* C22: every board on which validate_board calls guess_mines is unsolved
\* and at a fixed point of the deduction: at no shown numbered field with a
\* hidden neighbour does rule A or rule B apply.
C22_GuessAtFixedPoint ==
    pc = "returned" => AllUnsolvedFixedPoints(GuessCalls(before, call.x, call.y))

\* g has a hinted field, and a shown numbered field with a hidden neighbour.
HintedFrontier(g) ==
    /\ HintCount(g) >= 1
    /\ \E i \in DOMAIN g.fields :
         /\ ShownFree(g, i)
         /\ g.fields[i].state > Free(0)
         /\ num(hidden_adjacents(g, XOf(g, i), YOf(g, i))) >= 1

\* validate_board has called guess_mines on a board on which the deduction
\* had hinted a mine, and which has a shown numbered field with a hidden
\* neighbour.
C22_Witness ==
    /\ pc = "returned"
    /\ call.op = "validate_board"
    /\ Len(GuessCalls(before, call.x, call.y)) >= 1
    /\ HintedFrontier(GuessCalls(before, call.x, call.y)[1])

\* A call of guess_mines: its receiver, its window and its n.
GuessCall(g, x_s, x_e, y_s, y_e, n) ==
    [g |-> g, x_s |-> x_s, x_e |-> x_e, y_s |-> y_s, y_e |-> y_e, n |-> n]

\* What the call c returns.
GuessOf(c) == guess_mines(c.g, c.x_s, c.x_e, c.y_s, c.y_e, c.n)

\* The scan of the call c.
ScanOf(c) == PossibleFields(c.g, c.x_s, c.x_e, c.y_s, c.y_e)

\* The masks an iterator yields from `it` on, in order.
RECURSIVE Masks(_)
MasksAfter(nx) == IF ~nx.item.some THEN <<>> ELSE <<nx.item.val>> \o Masks(nx.it)

Masks(it) == MasksAfter(CombinationIter_next(it))

\* The hypothesis boards of the possible field f of g for the masks ms.
HypothesesOf(g, f, ms) ==
    [p \in 1..Len(ms) |->
        HintCombination(g, f.x, f.y, offsets(f.adjacents), ms[p], 0)]

\* The hypothesis boards of the possible field f of g, in the order of the
\* masks its iterator yields.
Hypotheses(g, f) ==
    HypothesesOf(g, f, Masks(CombinationIter_new(num(f.adjacents), f.missing)))

\* Those of the hypothesis boards hyps of f that pass the checks before the
\* recursion.
Recursing(f, hyps) ==
    {hyps[p] : p \in {p \in 1..Len(hyps) :
                        ~OverHinted(hyps[p], f.x, f.y) /\ open_mine_count(hyps[p]) # 0}}

\* The calls of guess_mines nested directly in a call with n on g, would the
\* call try every hypothesis of every possible field of fs: with the
\* radius-3 window around the field.
NestedIn(g, fs, n) ==
    UNION {{GuessCall(h, Max(fs[j].x - 3, 0), Min(fs[j].x + 4, g.width),
                         Max(fs[j].y - 3, 0), Min(fs[j].y + 4, g.height), n + 1) :
               h \in Recursing(fs[j], Hypotheses(g, fs[j]))} :
           j \in 1..Len(fs)}

NestedCalls(c) == NestedIn(c.g, ScanOf(c), c.n)

WithNested(top) == top \cup UNION {NestedCalls(c) : c \in top}

\* The calls of guess_mines by validate_board working on b from (x, y), and
\* the calls nested directly in them.
GuessCallsOf(b, x, y) ==
    WithNested({GuessCall(GuessCalls(b, x, y)[k], 0, b.width, 0, b.height, 0) :
                   k \in 1..Len(GuessCalls(b, x, y))})

\* The field at position i is a candidate of the call c: it is in the window,
\* shown and free, and 0 < n - hinted < hidden.
Candidate(c, i) ==
    /\ InWindow(c.g, i, c.x_s, c.x_e, c.y_s, c.y_e)
    /\ ShownFree(c.g, i)
    /\ 0 < c.g.fields[i].state - num(hinted_adjacents(c.g, XOf(c.g, i), YOf(c.g, i)))
    /\ c.g.fields[i].state - num(hinted_adjacents(c.g, XOf(c.g, i), YOf(c.g, i)))
          < num(hidden_adjacents(c.g, XOf(c.g, i), YOf(c.g, i)))

\* The scan fs holds the candidates cs and nothing else, and without a
\* candidate the call has returned NoMissingNeighbors and has built no
\* hypothesis board; r is what the call has returned.
ScansExactly(g, fs, cs, r) ==
    /\ {Idx(g, fs[j].x, fs[j].y) : j \in 1..Len(fs)} = cs
    /\ Len(fs) = Cardinality(cs)
    /\ cs = {} => (r.tag = "NoMissingNeighbors" /\ r.tried = 0)
    /\ r.tag = "NoMissingNeighbors" => cs = {}

ScansCandidates(c) ==
    ScansExactly(c.g, ScanOf(c), {i \in DOMAIN c.g.fields : Candidate(c, i)}, GuessOf(c))

\* The call ends Err(Ambigous) when guess_mines, called on the last of the
\* boards gs, returns NoMissingNeighbors.
NothingMissingIsAmbigous(gs) ==
    (Len(gs) >= 1 /\ TopGuess(gs[Len(gs)]).tag = "NoMissingNeighbors") =>
        /\ Guess(gs[Len(gs)], TopGuess(gs[Len(gs)])).ret = "Ambigous"
        /\ call.ret = IF call.op = "validate_board" THEN "Ambigous" ELSE "false"

\* C23: the fields guess_mines takes for candidates are the shown free
\* fields of its window with 0 < n - hinted < hidden; without a candidate it
\* returns NoMissingNeighbors and tries no hypothesis; and validate_board
\* returns Err(Ambigous) when its call of guess_mines returns
\* NoMissingNeighbors.
C23_CandidatesAndNoneMissing ==
    pc = "returned" =>
        /\ \A c \in GuessCallsOf(before, call.x, call.y) : ScansCandidates(c)
        /\ NothingMissingIsAmbigous(GuessCalls(before, call.x, call.y))

TopNothingMissing(gs) ==
    Len(gs) >= 1 /\ TopGuess(gs[Len(gs)]).tag = "NoMissingNeighbors"

\* validate_board has returned after a call of guess_mines that returned
\* NoMissingNeighbors.
C23_Witness ==
    /\ pc = "returned"
    /\ call.op = "validate_board"
    /\ TopNothingMissing(GuessCalls(before, call.x, call.y))

\* What is seen of a call on g with n before its 'guessing loop.
NothingTried(g, n) == [low |-> open_mine_count(g), deep |-> n, under |-> FALSE, tried |-> 0]

\* The positions in fs of the possible fields with more mines missing than
\* open_mine_count() has left on g.
OverBudget(g, fs) == {j \in 1..Len(fs) : open_mine_count(g) < fs[j].missing}

\* The 'guessing loop of a call with n on g over the first j - 1 fields of fs
\* alone: it ends Err when control passes the last of them, with Ambigous
\* when one of them was counted as ambiguous.
GuessingBefore(g, fs, j, n) ==
    Guessing(g, SubSeq(fs, 1, j - 1), 1, 0, n, NothingTried(g, n))

Reaches(g, fs, j, n) == GuessingBefore(g, fs, j, n).tag \in {"Ambigous", "Invalid"}

\* The call c, whose sorted possible fields are fs, reaches no field over
\* budget, or returns Err(Invalid) at the first it reaches, having built the
\* hypothesis boards of the fields before that one and no other; r is what
\* the call returns.
AbortsOverBudget(c, fs, r) ==
    \A j \in OverBudget(c.g, fs) :
        /\ \A num_ambigous \in 0..(j - 1) :
             /\ Guessing(c.g, fs, j, num_ambigous, c.n, NothingTried(c.g, c.n)).tag
                   = "Invalid"
             /\ Guessing(c.g, fs, j, num_ambigous, c.n, NothingTried(c.g, c.n)).tried = 0
        /\ ((\A i \in OverBudget(c.g, fs) : j <= i) /\ Reaches(c.g, fs, j, c.n)) =>
             /\ r.tag = "Invalid"
             /\ r.tried = GuessingBefore(c.g, fs, j, c.n).tried

AbortsLate(c, fs) ==
    \E j \in OverBudget(c.g, fs) :
        Reaches(c.g, fs, j, c.n) /\ GuessingBefore(c.g, fs, j, c.n).tried >= 1

Ending(f, n, hyps, tag) == {p \in 1..Len(hyps) : Hypothesis(f, n, hyps[p]).tag = tag}

\* The hypotheses of the possible field f of the call c that survive.
Survivors(c, f) == Ending(f, c.n, Hypotheses(c.g, f), "Valid")

\* A hypothesis of a possible field of fs ends the call c with Ok(Done).
SomeDone(c, fs) ==
    \E j \in 1..Len(fs) : Ending(fs[j], c.n, Hypotheses(c.g, fs[j]), "Done") # {}

\* How many possible fields of fs have k surviving hypotheses, two standing
\* for two or more.
WithSurvivors(c, fs, k) ==
    Cardinality({j \in 1..Len(fs) :
                    IF k < 2 THEN Cardinality(Survivors(c, fs[j])) = k
                    ELSE Cardinality(Survivors(c, fs[j])) >= 2})

\* The call c with possible fields fs, none over budget, none with exactly
\* one surviving hypothesis and none with a hypothesis that ends Ok(Done),
\* returns Err(Ambigous) when a field has two surviving hypotheses and
\* Err(Invalid) when none has; r is what the call returns.
Classifies(c, fs, r) ==
    (/\ Len(fs) >= 1
     /\ OverBudget(c.g, fs) = {}
     /\ ~SomeDone(c, fs)
     /\ WithSurvivors(c, fs, 1) = 0) =>
        r.tag = IF WithSurvivors(c, fs, 2) >= 1 THEN "Ambigous" ELSE "Invalid"

\* C25: a call of guess_mines in which no candidate has exactly one
\* surviving hypothesis, with no budget abort and no recursive Done, returns
\* Err(Ambigous) if a candidate has two surviving hypotheses and
\* Err(Invalid) if every candidate has none.
C25_AmbigousOrInvalid ==
    pc = "returned" =>
        \A c \in GuessCallsOf(before, call.x, call.y) :
            Classifies(c, SortFields(ScanOf(c)), GuessOf(c))

\* The call c classifies: no field of fs is over budget or has exactly one
\* surviving hypothesis, `two` fields at least have two and `none` at least
\* have none.
ClassifiedWith(c, fs, two, none) ==
    /\ Len(fs) >= 1
    /\ OverBudget(c.g, fs) = {}
    /\ ~SomeDone(c, fs)
    /\ WithSurvivors(c, fs, 1) = 0
    /\ WithSurvivors(c, fs, 2) >= two
    /\ WithSurvivors(c, fs, 0) >= none

\* One call of guess_mines has returned Err(Ambigous) with a candidate that
\* had two surviving hypotheses, and one Err(Invalid) with no candidate that
\* had any.
C25_Witness ==
    /\ pc = "returned"
    /\ \E c \in GuessCallsOf(before, call.x, call.y) :
         ClassifiedWith(c, SortFields(ScanOf(c)), 1, 0)
    /\ \E c \in GuessCallsOf(before, call.x, call.y) :
         /\ ClassifiedWith(c, SortFields(ScanOf(c)), 0, 1)
         /\ WithSurvivors(c, SortFields(ScanOf(c)), 2) = 0

\* The second smallest of the positions ps.
SecondOf(ps) == CHOOSE p \in ps : Cardinality({q \in ps : q < p}) = 1

\* How many hypothesis boards the 'combinations loop builds for a possible
\* field with the hypotheses hyps of which those at vs survive: all of them,
\* or those up to the second that survives.
TriedOf(hyps, vs) == IF Cardinality(vs) >= 2 THEN SecondOf(vs) ELSE Len(hyps)

\* The same for the possible field f of the call c.
TriedFor(c, f) == TriedOf(Hypotheses(c.g, f), Survivors(c, f))

\* The 'combinations loop of the call c for its possible field f, by itself.
CombinationsOf(c, f) ==
    Combinations(c.g, f, CombinationIter_new(num(f.adjacents), f.missing),
                 NoBoard(c.g, NothingTried(c.g, c.n)), c.n)

\* The 'combinations loop of a possible field with two surviving hypotheses
\* ends at the second of them, the field counted as ambiguous; l is what
\* the loop gives.
StopsAtSecond(hyps, vs, l) ==
    Cardinality(vs) >= 2 => (l.tag = "Ambigous" /\ l.valid.tried = SecondOf(vs))

\* How many hypothesis boards the call c builds for the first j of its
\* possible fields fs.
RECURSIVE TriedUpTo(_, _, _)
TriedUpTo(c, fs, j) ==
    IF j = 0 THEN 0 ELSE TriedUpTo(c, fs, j - 1) + TriedFor(c, fs[j])

\* The board of the only surviving hypothesis of the possible field f.
SurvivorOf(c, f, hyps, vs) == Hypothesis(f, c.n, hyps[CHOOSE p \in vs : TRUE]).g

\* The call c, taking its possible fields fs in order, has gone on from each
\* field with two surviving hypotheses at the second of them, and has returned
\* the board of the first field with exactly one, the fields after it not
\* looked at; ones are the positions of the fields with exactly one, r is
\* what the call returns.
TakesFirstSingle(c, fs, ones, r) ==
    /\ \A j \in 1..Len(fs) :
         StopsAtSecond(Hypotheses(c.g, fs[j]), Survivors(c, fs[j]),
                       CombinationsOf(c, fs[j]))
    /\ \A j \in ones :
         ((\A i \in ones : j <= i)
            /\ (\A i \in OverBudget(c.g, fs) : j < i)
            /\ ~SomeDone(c, fs)) =>
             /\ r.tag = IF is_solved(SurvivorOf(c, fs[j], Hypotheses(c.g, fs[j]),
                                                Survivors(c, fs[j])))
                        THEN "Done" ELSE "Progress"
             /\ r.tag = "Progress" =>
                   r.g = SurvivorOf(c, fs[j], Hypotheses(c.g, fs[j]), Survivors(c, fs[j]))
             /\ r.tried = TriedUpTo(c, fs, j)

SingleSurvivor(c, fs) == {j \in 1..Len(fs) : Cardinality(Survivors(c, fs[j])) = 1}

\* C26: in guess_mines a candidate is counted as ambiguous as soon as a
\* second of its hypotheses survives, its other hypotheses are not tried and
\* the search goes on with the next candidate; the board of Progress is that
\* of the first candidate, in the sorted order, with exactly one surviving
\* hypothesis, and no candidate after it is examined.
C26_FirstSingleSurvivor ==
    pc = "returned" =>
        \A c \in GuessCallsOf(before, call.x, call.y) :
            TakesFirstSingle(c, SortFields(ScanOf(c)),
                             SingleSurvivor(c, SortFields(ScanOf(c))), GuessOf(c))

\* The call c returns Progress from a possible field of fs after one that
\* had two surviving hypotheses.
GoesOnToSingle(c, fs, ones, r) ==
    /\ r.tag = "Progress"
    /\ \E j \in ones : \E i \in 1..(j - 1) : Cardinality(Survivors(c, fs[i])) >= 2

\* A possible field of fs has two surviving hypotheses, and more hypotheses
\* after the second of them.
LeavesUntried(c, fs) ==
    \E i \in 1..Len(fs) :
        /\ Cardinality(Survivors(c, fs[i])) >= 2
        /\ SecondOf(Survivors(c, fs[i])) < Len(Hypotheses(c.g, fs[i]))

\* A call of guess_mines has returned Progress from a candidate after one
\* that was counted as ambiguous, and a call has left hypotheses of an
\* ambiguous candidate untried.
C26_Witness ==
    /\ pc = "returned"
    /\ \E c \in GuessCallsOf(before, call.x, call.y) :
         GoesOnToSingle(c, SortFields(ScanOf(c)),
                        SingleSurvivor(c, SortFields(ScanOf(c))), GuessOf(c))
    /\ \E c \in GuessCallsOf(before, call.x, call.y) :
         LeavesUntried(c, SortFields(ScanOf(c)))

\* The positions at which the boards g and h differ.
Changed(g, h) == {i \in DOMAIN g.fields : h.fields[i] # g.fields[i]}

\* h is g with hidden fields hinted, and nothing else changed.
HintsOnly(g, h) ==
    /\ h.width = g.width /\ h.height = g.height /\ h.num_mines = g.num_mines
    /\ \A i \in Changed(g, h) :
         /\ h.fields[i].state = g.fields[i].state
         /\ g.fields[i].visibility = "Hide"
         /\ h.fields[i].visibility = "Hint"

\* Every hypothesis board of hyps, built from g for the possible field f, is
\* g with f.missing hidden neighbours of f hinted.
HintsMissing(g, f, hyps) ==
    \A p \in 1..Len(hyps) :
        /\ HintsOnly(g, hyps[p])
        /\ Cardinality(Changed(g, hyps[p])) = f.missing
        /\ Changed(g, hyps[p]) \subseteq Neighbours(g, Idx(g, f.x, f.y))

\* The call c with possible fields fs builds and returns only boards that
\* are its receiver with more fields hinted, and does not return Ok(Done)
\* when its receiver is unsolved; r is what it returns.
AddsHintsOnly(c, fs, r) ==
    /\ \A j \in 1..Len(fs) : HintsMissing(c.g, fs[j], Hypotheses(c.g, fs[j]))
    /\ HintsOnly(c.g, r.g)
    /\ r.tag = "Progress" => HintCount(r.g) > HintCount(c.g)
    /\ ~is_solved(c.g) => r.tag # "Done"

\* C27: every hypothesis board guess_mines builds is its receiver with
\* `missing` hidden neighbours of the candidate hinted, the board of a
\* Progress is the receiver with hidden fields hinted, nothing is shown and
\* no content changed, and no call of guess_mines on an unsolved board, as
\* those by validate_board are, returns Ok(Done).
C27_GuessOnlyHints ==
    pc = "returned" =>
        /\ \A c \in GuessCallsOf(before, call.x, call.y) :
             AddsHintsOnly(c, SortFields(ScanOf(c)), GuessOf(c))
        /\ \A k \in 1..Len(GuessCalls(before, call.x, call.y)) :
             ~is_solved(GuessCalls(before, call.x, call.y)[k])

\* The call c returns a Progress board with more hints than the hypothesis
\* of any one of its possible fields fs adds.
ProgressFromNested(c, fs, r) ==
    /\ r.tag = "Progress"
    /\ \A j \in 1..Len(fs) : HintCount(r.g) > HintCount(c.g) + fs[j].missing

\* validate_board has called guess_mines, which has returned a Progress
\* board that holds the hints of a nested call.
C27_Witness ==
    /\ pc = "returned"
    /\ \E c \in GuessCallsOf(before, call.x, call.y) :
         c.n = 0 /\ ProgressFromNested(c, SortFields(ScanOf(c)), GuessOf(c))

\* A shown free field of g has more hinted neighbours than its number: the
\* u8 subtraction `neighbors - hinted_adjacents.num()` would go below zero
\* there.
OverHintedField(g) == ScanUnderflows(g, 0, g.width, 0, g.height)

\* None of the boards gs has such a field, and no scan of guess_mines called
\* on one of them, or nested in such a call, has met one in its window.
NoneUnderflows(gs) ==
    \A k \in 1..Len(gs) : ~OverHintedField(gs[k]) /\ ~TopGuess(gs[k]).under

\* C28: in validate_board on a board with consistent numbers, no hints and
\* num_mines its number of mines, `neighbors - hinted_adjacents.num()` never
\* goes below zero. The working board only gains hints and shown fields, so
\* a field solve_board met with too many hints is still one on the board as
\* guess_mines is called and as the call returns: there is none on these,
\* and no scan of guess_mines meets one.
C28_NoUnderflow ==
    (pc = "returned" /\ ConsistentCounts(before) /\ NoHints(before)
        /\ before.num_mines = MineCount(before)) =>
        /\ ~OverHintedField(board)
        /\ NoneUnderflows(GuessCalls(before, call.x, call.y))

\* validate_board has returned from such a board after guess_mines, nesting,
\* returned a Progress board, which was worked on.
C28_Witness ==
    /\ pc = "returned"
    /\ ConsistentCounts(before) /\ NoHints(before)
    /\ before.num_mines = MineCount(before)
    /\ NestedProgress(GuessCalls(before, call.x, call.y))
    /\ HintCount(board) >= 2

\* Every field of g is shown.
AllShown(g) == \A i \in DOMAIN g.fields : g.fields[i].visibility = "Show"

\* A mine of h is shown that was not shown on g.
MineRevealed(g, h) ==
    \E i \in DOMAIN h.fields :
        /\ h.fields[i].state = Mine
        /\ h.fields[i].visibility = "Show"
        /\ ~(i \in DOMAIN g.fields /\ g.fields[i].visibility = "Show")

\* A new game, as Game::new makes it.
IsNewGame(g) ==
    g.play_state = "Init" /\ \A i \in DOMAIN g.fields : g.fields[i] = Field_free(0)

\* One step of the game from g to h keeps to the order of the play states,
\* and check_if_won would not take the unsolved g for won.
PlayStateStep(g, h) ==
    /\ g.play_state = "Init" =>
          \/ h.play_state = "Init"
          \/ h.play_state \in {"Playing", "Won"} /\ pc = "break"
    /\ g.play_state = "Playing" =>
          h.play_state \in {"Playing", "Won", "Lost"} \/ IsNewGame(h)
    /\ g.play_state \in {"Won", "Lost"} => (h = g \/ IsNewGame(h))
    /\ pc = "break" => h.play_state # "Init"
    /\ (h.play_state = "Won" /\ g.play_state # "Won") => (is_solved(h) /\ AllShown(h))
    /\ check_if_won(g).play_state = "Won" => (g.play_state = "Won" \/ is_solved(g))
    /\ (h.play_state = "Lost" /\ g.play_state # "Lost") => MineRevealed(g, h)

\* C29: the play state goes from Init to Playing with the first click on the
\* board, from Playing to Won only on a solved board, whose fields are then
\* all shown, and to Lost only when a mine is shown; a game that is Won or
\* Lost stays as it is until new_game puts a new game in its place.
C29_PlayStateOrder == [][PlayStateStep(game, game')]_vars

\* A game is Lost with a mine shown, after hints were set.
C29_Witness ==
    /\ game.play_state = "Lost"
    /\ HintCount(game) >= 1
    /\ \E i \in DOMAIN game.fields :
         game.fields[i].state = Mine /\ game.fields[i].visibility = "Show"

\* A neighbour of (x, y) is a mine that is neither hinted nor shown.
UnhintedMineAround(g, x, y) ==
    \E j \in Neighbours(g, Idx(g, x, y)) :
        g.fields[j].state = Mine /\ g.fields[j].visibility = "Hide"

\* The game r that a click left is Lost, not Won, and a further check_if_won
\* leaves it as it is.
LostNotWon(r) ==
    /\ r.play_state = "Lost"
    /\ check_if_won(r) = r

\* C30: on a game that is Playing, a click on a shown field with as many
\* hinted neighbours as its number, one of whose neighbours is a mine without
\* a hint, leaves the game Lost and never Won, whether or not the click has
\* shown every free field.
C30_LosingChordNeverWins ==
    (pc = "idle" /\ game.play_state = "Playing") =>
        \A p \in Places(game) :
            (Chords(p[1], p[2]) /\ UnhintedMineAround(game, p[1], p[2])) =>
                LostNotWon(ClickAt(p[1], p[2]))

\* A game in play, not solved, where a click on a shown field shows a mine
\* without a hint and every free field that was left.
C30_Witness ==
    /\ pc = "idle"
    /\ game.play_state = "Playing"
    /\ ~is_solved(game)
    /\ \E p \in Places(game) :
         /\ Chords(p[1], p[2])
         /\ UnhintedMineAround(game, p[1], p[2])
         /\ is_solved(ClickAt(p[1], p[2]))
         /\ ClickAt(p[1], p[2]).play_state = "Lost"

====
